---- MODULE Spec2Model ----
(***************************************************************************)
(* Model of the ComMod compatibility engine (src/mod.py) and of the        *)
(* install wizard (src/src/commod/gui/app_widgets.py).                     *)
(*                                                                         *)
(* Python strings are sequences of one-character strings, so that parsing  *)
(* (find, split, slicing, replace) is modelled by what it does.            *)
(***************************************************************************)
EXTENDS Integers, Sequences, FiniteSets, TLC

VARIABLES
    mod,                    \* the Mod being resolved / installed (self)
    installed_content,      \* game.installed_content: name -> InstalledEntry
    installed_descriptions, \* game.installed_descriptions: name -> text
    manifest_disk,          \* installed-mods YAML on disk: name -> InstalledEntry
    game_installment,       \* game.installment
    patcher_version,        \* version of the mod manager handed to load_commod_compatibility
    verdict,                \* Resolver-owned fields of the mod (compatible, prevalidated, ...)
    call,                   \* last pure-function application and its result
    content_in_processing,  \* session.content_in_processing: name -> InstalledEntry
    wizard,                 \* the ModInstallWizard: its option cards and its install run
    history,                \* ghost: what the install runs and refreshes of this session did
    session,                \* app.session: mods and tracked_mods_hashes
    context,                \* app.context: validated_mods and hashed_mod_manifests
    distribution,           \* the manifests in the distribution directory: path -> text
    app                     \* app.local_mods.game_is_running, the alert shown, page.overlay,
                            \* and whether and what check_is_running answered to the
                            \* last install_mod (probed, is_running)

vars == <<mod, installed_content, installed_descriptions, manifest_disk,
          game_installment, patcher_version, verdict, call,
          content_in_processing, wizard, history,
          session, context, distribution, app>>

-----------------------------------------------------------------------------
(* Bounds *)

MaxConstraints == 2      \* version constraints per prerequisite / incompatible
MaxRuns == 3             \* install runs per session
MaxSelection == 3        \* keys of an install_settings dict
MaxRefreshes == 3        \* refreshes of the distribution per session
MaxEntries == 2          \* entries of a list of a manifest under validation
MaxTranslations == 2     \* translations a manifest declares

-----------------------------------------------------------------------------
(* Strings *)

Digits == {"0", "1", "2", "3", "4", "5", "6", "7", "8", "9"}

\* code point of a character, for str comparison
Ord(c) ==
    CASE c = "-" -> 45 [] c = "." -> 46
      [] c = "0" -> 48 [] c = "1" -> 49 [] c = "2" -> 50 [] c = "3" -> 51
      [] c = "4" -> 52 [] c = "5" -> 53 [] c = "6" -> 54 [] c = "7" -> 55
      [] c = "8" -> 56 [] c = "9" -> 57
      [] c = "<" -> 60 [] c = "=" -> 61 [] c = ">" -> 62
      [] c = "a" -> 97 [] c = "b" -> 98 [] c = "c" -> 99 [] c = "e" -> 101
      [] c = "r" -> 114 [] c = "t" -> 116
      [] OTHER -> 127

\* s[:n]
Prefix(s, n) == SubSeq(s, 1, IF Len(s) < n THEN Len(s) ELSE n)

\* s[n:] with n counted from 0
Suffix(s, n) == SubSeq(s, n + 1, Len(s))

\* s.find(c): 0-based index of the first c, -1 when absent
RECURSIVE FindFrom(_, _, _)
FindFrom(s, c, i) ==
    IF i > Len(s) THEN -1
    ELSE IF s[i] = c THEN i - 1
    ELSE FindFrom(s, c, i + 1)

Find(s, c) == FindFrom(s, c, 1)

\* c in s
Contains(s, c) == \E i \in 1..Len(s) : s[i] = c

\* s.split(c)
RECURSIVE Split(_, _)
Split(s, c) ==
    LET i == Find(s, c)
    IN IF i = -1 THEN <<s>>
       ELSE <<SubSeq(s, 1, i)>> \o Split(Suffix(s, i + 1), c)

\* ''.join(parts)
RECURSIVE Join(_)
Join(parts) ==
    IF Len(parts) = 0 THEN <<>>
    ELSE Head(parts) \o Join(Tail(parts))

\* s.replace(c, '') for each c of a set
RECURSIVE RemoveChars(_, _)
RemoveChars(s, cs) ==
    IF Len(s) = 0 THEN <<>>
    ELSE (IF Head(s) \in cs THEN <<>> ELSE <<Head(s)>>) \o RemoveChars(Tail(s), cs)

\* s.isnumeric(): false on the empty string
IsNumeric(s) == Len(s) > 0 /\ \A i \in 1..Len(s) : s[i] \in Digits

\* int(s) for a numeric s
RECURSIVE IntOf(_)
IntOf(s) ==
    IF Len(s) = 0 THEN 0
    ELSE IntOf(SubSeq(s, 1, Len(s) - 1)) * 10 + (Ord(s[Len(s)]) - 48)

\* a < b on str: lexicographic by code point, a proper prefix is smaller
RECURSIVE StrLess(_, _)
StrLess(a, b) ==
    IF Len(b) = 0 THEN FALSE
    ELSE IF Len(a) = 0 THEN TRUE
    ELSE IF Ord(Head(a)) < Ord(Head(b)) THEN TRUE
    ELSE IF Ord(Head(a)) > Ord(Head(b)) THEN FALSE
    ELSE StrLess(Tail(a), Tail(b))

\* a > b on str
StrGreater(a, b) == StrLess(b, a)

-----------------------------------------------------------------------------
(* Mod.Version *)

\* Mod.Version.__init__
Version(version_str) ==
    LET identifier_index == Find(version_str, "-")
        has_minor_ver == Contains(version_str, ".")
        identifier == IF identifier_index # -1
                      THEN Suffix(version_str, identifier_index + 1)
                      ELSE <<>>
        numeric_version == IF identifier_index # -1
                           THEN Prefix(version_str, identifier_index)
                           ELSE version_str
        version_split == Split(numeric_version, ".")
        version_levels == Len(version_split)
        major == IF has_minor_ver THEN Prefix(version_split[1], 4) ELSE numeric_version
        minor == IF has_minor_ver /\ version_levels > 1
                 THEN Prefix(version_split[2], 4) ELSE <<"0">>
        patch == IF has_minor_ver /\ version_levels > 3
                 THEN Join(SubSeq(version_split, 3, version_levels))
                 ELSE IF has_minor_ver /\ version_levels > 2
                 THEN Prefix(version_split[3], 10) ELSE <<"0">>
    IN [major |-> major, minor |-> minor, patch |-> patch,
        identifier |-> identifier,
        is_numeric |-> IsNumeric(major) /\ IsNumeric(minor) /\ IsNumeric(patch)]

\* the identifier is left out
Version_str_numbers(v) == v.major \o <<".">> \o v.minor \o <<".">> \o v.patch

\* Mod.Version.__str__
Version_str(v) ==
    v.major \o <<".">> \o v.minor \o <<".">> \o v.patch
      \o (IF v.identifier # <<>> THEN <<"-">> \o v.identifier ELSE <<>>)

\* tuple comparison of (int(major), int(minor), int(patch))
IntTupleLess(a, b) ==
    \/ IntOf(a.major) < IntOf(b.major)
    \/ /\ IntOf(a.major) = IntOf(b.major)
       /\ \/ IntOf(a.minor) < IntOf(b.minor)
          \/ /\ IntOf(a.minor) = IntOf(b.minor)
             /\ IntOf(a.patch) < IntOf(b.patch)

\* Mod.Version.__eq__: the non-numeric branch compares self with self
Version_eq(self, other) ==
    IF self.is_numeric /\ other.is_numeric
    THEN /\ IntOf(self.major) = IntOf(other.major)
         /\ IntOf(self.minor) = IntOf(other.minor)
         /\ IntOf(self.patch) = IntOf(other.patch)
    ELSE <<self.major, self.minor, self.patch>> = <<self.major, self.minor, self.patch>>

\* Mod.Version.__lt__ raises AttributeError (self.path) in the non-numeric branch
Version_lt_raises(self, other) == ~(self.is_numeric /\ other.is_numeric)

\* Mod.Version.__lt__ when it returns
Version_lt(self, other) == IntTupleLess(self, other)

\* operator.{eq,ge,le,gt,lt} on Versions; ge, le, gt come from functools.total_ordering
compare_raises(op, a, b) == op # "eq" /\ Version_lt_raises(a, b)

compare_of(op, lt, eq) ==
    CASE op = "eq" -> eq
      [] op = "lt" -> lt
      [] op = "ge" -> ~lt
      [] op = "le" -> lt \/ eq
      [] op = "gt" -> ~lt /\ ~eq

compare_operation(op, a, b) == compare_of(op, Version_lt(a, b), Version_eq(a, b))

-----------------------------------------------------------------------------
(* Version constraints, as check_requirement / check_incompatible read them *)

None == "<None>"

Msg(key, arg) == [key |-> key, arg |-> arg]

InSeq(m, seq) == \E i \in 1..Len(seq) : seq[i] = m

AppendIfAbsent(seq, m) == IF InSeq(m, seq) THEN seq ELSE Append(seq, m)

\* the if/elif chain on version[:2] and version[:1]; no prefix means "=="
prereq_operation(version) ==
    IF Prefix(version, 2) = <<">", "=">> THEN "ge"
    ELSE IF Prefix(version, 2) = <<"<", "=">> THEN "le"
    ELSE IF Prefix(version, 1) = <<">">> THEN "gt"
    ELSE IF Prefix(version, 1) = <<"<">> THEN "lt"
    ELSE "eq"

\* for sign in (">", "<", "="): version = version.replace(sign, '')
strip_signs(version) == RemoveChars(version, {">", "<", "="})

\* existing_content.get(name) is not None
IsInstalled(existing_content, name) == name \in DOMAIN existing_content

\* the loop "for possible in entry['name']": the last installed alternative wins
LastInstalledName(names, existing_content) ==
    LET found == {i \in 1..Len(names) : IsInstalled(existing_content, names[i])}
    IN IF found = {} THEN None
       ELSE names[CHOOSE i \in found : \A j \in found : j <= i]

\* existing_content[name].get(option)
OptionValue(entry, option) ==
    IF option \in DOMAIN entry.options THEN entry.options[option] ELSE None

\* name_label: display name of the installed alternatives, technical name otherwise
NameLabel(names, existing_content) ==
    [i \in 1..Len(names) |->
        IF IsInstalled(existing_content, names[i])
        THEN existing_content[names[i]].display_name
        ELSE names[i]]

OnlyTechnicalNameAvailable(names, existing_content) ==
    \E i \in 1..Len(names) : ~IsInstalled(existing_content, names[i])

-----------------------------------------------------------------------------
(* Mod.check_requirement *)

\* one pass of the loop over prereq_versions: version_validated is assigned anew
requirement_version_step(acc, op, parsed_existing_ver, parsed_required_ver) ==
    IF compare_raises(op, parsed_existing_ver, parsed_required_ver)
    THEN [acc EXCEPT !.raised = "AttributeError"]
    ELSE [acc EXCEPT
            !.version_validated =
                IF /\ op = "eq"
                   /\ parsed_required_ver.identifier # <<>>
                   /\ parsed_existing_ver.identifier # parsed_required_ver.identifier
                THEN FALSE
                ELSE compare_operation(op, parsed_existing_ver, parsed_required_ver),
            !.compare_ops = @ \cup {op}]

\* the loop over prereq_versions
RECURSIVE requirement_versions_loop(_, _, _, _)
requirement_versions_loop(prereq_versions, installed_version, i, acc) ==
    IF i > Len(prereq_versions) \/ acc.raised # "none" THEN acc
    ELSE requirement_versions_loop(
             prereq_versions, installed_version, i + 1,
             requirement_version_step(acc, prereq_operation(prereq_versions[i]),
                                      Version(installed_version),
                                      Version(strip_signs(prereq_versions[i]))))

\* the loop over the required optional content
RECURSIVE requirement_options_loop(_, _, _, _, _)
requirement_options_loop(optional_content, entry, name_label, i, acc) ==
    IF i > Len(optional_content) THEN acc
    ELSE IF OptionValue(entry, optional_content[i]) \in {None, "skip"}
    THEN requirement_options_loop(
             optional_content, entry, name_label, i + 1,
             [acc EXCEPT !.optional_content_validated = FALSE,
                         !.error_msg = Append(
                             AppendIfAbsent(@, Msg("content_requirement_not_met", <<>>)),
                             Msg("for_mod", <<optional_content[i]>> \o name_label))])
    ELSE requirement_options_loop(optional_content, entry, name_label, i + 1, acc)

compatch_on_comrem_never(self, prereq, existing_content, required_mod_name) == FALSE

\* a mod for community_patch is not taken as installable over community_remaster
compatch_on_comrem(self, prereq, existing_content, required_mod_name) ==
    /\ required_mod_name = "community_patch"
    /\ IsInstalled(existing_content, "community_remaster")
    /\ self.name # "community_remaster"
    /\ ~Contains(prereq.name, "community_remaster")

\* the locals of check_requirement once the name has been looked up
requirement_start(required_mod_name, on_comrem) ==
    [raised |-> "none",
     required_mod_name |-> required_mod_name,
     name_validated |-> required_mod_name # None /\ ~on_comrem,
     version_validated |-> TRUE,
     optional_content_validated |-> TRUE,
     compare_ops |-> {},
     validated |-> FALSE,
     error_msg |-> IF on_comrem
                   THEN <<Msg("compatch_mod_incompatible_with_comrem", <<>>)>>
                   ELSE <<>>]

\* "if prereq_versions and name_validated:"
requirement_versions(prereq, existing_content, acc) ==
    IF Len(prereq.versions) > 0 /\ acc.name_validated
    THEN requirement_versions_loop(
             prereq.versions, existing_content[acc.required_mod_name].version, 1, acc)
    ELSE acc

\* "if optional_content and name_validated and version_validated:"
requirement_options(prereq, existing_content, acc) ==
    IF /\ acc.raised = "none"
       /\ Len(prereq.optional_content) > 0
       /\ acc.name_validated /\ acc.version_validated
    THEN requirement_options_loop(
             prereq.optional_content, existing_content[acc.required_mod_name],
             NameLabel(prereq.name, existing_content), 1, acc)
    ELSE acc

\* the lines added to error_msg when the prerequisite is not validated
requirement_error_msg(prereq, existing_content, existing_content_descriptions, is_compatch_env, acc, with_warning) ==
    IF acc.required_mod_name \in DOMAIN existing_content_descriptions
    THEN AppendIfAbsent(with_warning, Msg("version_available", <<acc.required_mod_name>>))
    ELSE IF is_compatch_env /\ Contains(prereq.name, "community_remaster")
    THEN AppendIfAbsent(with_warning, Msg("version_available", <<"community_patch">>))
    ELSE with_warning

\* validated = name_validated and version_validated and optional_content_validated
requirement_validated(acc) ==
    acc.name_validated /\ acc.version_validated /\ acc.optional_content_validated

requirement_result(prereq, existing_content, existing_content_descriptions, is_compatch_env, acc) ==
    IF acc.raised # "none" THEN acc
    ELSE IF requirement_validated(acc) THEN [acc EXCEPT !.validated = TRUE]
    ELSE [acc EXCEPT
            !.validated = FALSE,
            !.error_msg =
                requirement_error_msg(
                    prereq, existing_content, existing_content_descriptions,
                    is_compatch_env, acc,
                    Append(AppendIfAbsent(
                               @, IF ~acc.name_validated
                                  THEN Msg("required_mod_not_found", <<>>)
                                  ELSE Msg("required_base", <<>>)),
                           Msg(IF OnlyTechnicalNameAvailable(prereq.name, existing_content)
                               THEN "technical_name" ELSE "mod_name",
                               NameLabel(prereq.name, existing_content))))]

check_requirement(self, prereq, existing_content, existing_content_descriptions, is_compatch_env) ==
    requirement_result(
        prereq, existing_content, existing_content_descriptions, is_compatch_env,
        requirement_options(
            prereq, existing_content,
            requirement_versions(
                prereq, existing_content,
                requirement_start(
                    LastInstalledName(prereq.name, existing_content),
                    compatch_on_comrem(self, prereq, existing_content,
                                       LastInstalledName(prereq.name, existing_content))))))

\* Mod.check_requirements: what one checked prerequisite adds to the result
requirement_collect(acc, i, r) ==
    IF r.raised # "none" THEN [acc EXCEPT !.raised = r.raised]
    ELSE [acc EXCEPT
            !.individual_require_status =
                Append(@, [entry |-> i, ok |-> r.validated, error_msg |-> r.error_msg]),
            !.error_msg = @ \o r.error_msg,
            !.requirements_met = @ /\ r.validated]

\* the loop over self.prerequisites
RECURSIVE requirements_loop(_, _, _, _, _, _)
requirements_loop(self, existing_content, existing_content_descriptions, is_compatch_env, i, acc) ==
    IF i > Len(self.prerequisites) \/ acc.raised # "none" THEN acc
    ELSE requirements_loop(
             self, existing_content, existing_content_descriptions, is_compatch_env, i + 1,
             IF /\ self.name = "community_remaster"
                /\ self.prerequisites[i].name[1] = "community_patch"
             THEN acc
             ELSE requirement_collect(
                      acc, i,
                      check_requirement(self, self.prerequisites[i], existing_content,
                                        existing_content_descriptions, is_compatch_env)))

\* "if error_msg: error_msg.append(tr('check_for_a_new_version'))"
with_new_version_hint(r) ==
    IF r.raised = "none" /\ Len(r.error_msg) > 0
    THEN [r EXCEPT !.error_msg = Append(@, Msg("check_for_a_new_version", <<>>))]
    ELSE r

\* Mod.check_requirements, called without patcher_version
check_requirements(self, existing_content, existing_content_descriptions) ==
    with_new_version_hint(
        requirements_loop(self, existing_content, existing_content_descriptions,
                          /\ ~IsInstalled(existing_content, "community_remaster")
                          /\ IsInstalled(existing_content, "community_patch"),
                          1,
                          [raised |-> "none", requirements_met |-> TRUE,
                           error_msg |-> <<>>, individual_require_status |-> <<>>]))

-----------------------------------------------------------------------------
(* Mod.check_incompatible *)

\* one pass of the loop over incomp_versions: version_incomp is assigned anew
incompatible_version_step(acc, op, parsed_existing_ver, parsed_incompat_ver) ==
    IF compare_raises(op, parsed_existing_ver, parsed_incompat_ver)
    THEN [acc EXCEPT !.raised = "AttributeError"]
    ELSE [acc EXCEPT
            !.version_incomp =
                IF /\ op = "eq"
                   /\ parsed_incompat_ver.identifier # <<>>
                   /\ parsed_existing_ver.identifier # parsed_incompat_ver.identifier
                THEN TRUE
                ELSE compare_operation(op, parsed_existing_ver, parsed_incompat_ver),
            !.compare_ops = @ \cup {op}]

\* the loop over incomp_versions
RECURSIVE incompatible_versions_loop(_, _, _, _)
incompatible_versions_loop(incomp_versions, installed_version, i, acc) ==
    IF i > Len(incomp_versions) \/ acc.raised # "none" THEN acc
    ELSE incompatible_versions_loop(
             incomp_versions, installed_version, i + 1,
             incompatible_version_step(acc, prereq_operation(incomp_versions[i]),
                                       Version(installed_version),
                                       Version(strip_signs(incomp_versions[i]))))

\* the loop over the incompatible optional content: any installed one counts
AnyOptionInstalled(optional_content, entry) ==
    \E i \in 1..Len(optional_content) :
        OptionValue(entry, optional_content[i]) \notin {None, "skip"}

\* the locals of check_incompatible once the name has been looked up
incompatible_start(incomp_mod_name) ==
    [raised |-> "none",
     incomp_mod_name |-> incomp_mod_name,
     version_incomp |-> FALSE,
     optional_content_incomp |-> FALSE,
     compare_ops |-> {},
     incompatible_with_game_copy |-> FALSE,
     error_msg |-> <<>>]

\* "if incomp_versions: ... else: version_incomp = True"
incompatible_versions(incomp, existing_content, acc) ==
    IF Len(incomp.versions) > 0
    THEN incompatible_versions_loop(
             incomp.versions, existing_content[acc.incomp_mod_name].version, 1, acc)
    ELSE [acc EXCEPT !.version_incomp = TRUE]

\* "if optional_content: ... else: optional_content_incomp = True"
incompatible_options(incomp, existing_content, acc) ==
    IF acc.raised # "none" THEN acc
    ELSE [acc EXCEPT
            !.optional_content_incomp =
                IF Len(incomp.optional_content) > 0
                THEN AnyOptionInstalled(incomp.optional_content,
                                        existing_content[acc.incomp_mod_name])
                ELSE TRUE]

\* incompatible_with_game_copy and the message; without a stored description of
\* the installed mod the branch raises NotImplementedError
incompatible_result(incomp, existing_content, existing_content_descriptions, acc) ==
    IF acc.raised # "none" THEN acc
    ELSE IF ~(acc.version_incomp /\ acc.optional_content_incomp) THEN acc
    ELSE IF acc.incomp_mod_name \notin DOMAIN existing_content_descriptions
    THEN [acc EXCEPT !.raised = "NotImplementedError"]
    ELSE [acc EXCEPT
            !.incompatible_with_game_copy = TRUE,
            !.error_msg =
                <<Msg("found_incompatible",
                      <<IF OnlyTechnicalNameAvailable(incomp.name, existing_content)
                        THEN "technical_name" ELSE "mod_name">>
                        \o NameLabel(incomp.name, existing_content)),
                  Msg("version_available", <<acc.incomp_mod_name>>)>>]

\* "if incomp_mod_name is not None:"
incompatible_found(incomp, existing_content, existing_content_descriptions, acc) ==
    IF acc.incomp_mod_name = None THEN acc
    ELSE incompatible_result(
             incomp, existing_content, existing_content_descriptions,
             incompatible_options(incomp, existing_content,
                                  incompatible_versions(incomp, existing_content, acc)))

check_incompatible(self, incomp, existing_content, existing_content_descriptions) ==
    incompatible_found(
        incomp, existing_content, existing_content_descriptions,
        incompatible_start(LastInstalledName(incomp.name, existing_content)))

\* Mod.check_incompatibles: what one checked entry adds to the result
incompatible_collect(acc, i, r) ==
    IF r.raised # "none" THEN [acc EXCEPT !.raised = r.raised]
    ELSE [acc EXCEPT
            !.individual_incomp_status =
                Append(@, [entry |-> i, ok |-> ~r.incompatible_with_game_copy,
                           error_msg |-> r.error_msg]),
            !.error_msg = @ \o r.error_msg,
            !.compatible = @ /\ ~r.incompatible_with_game_copy]

\* the loop over self.incompatible
RECURSIVE incompatibles_loop(_, _, _, _, _)
incompatibles_loop(self, existing_content, existing_content_descriptions, i, acc) ==
    IF i > Len(self.incompatible) \/ acc.raised # "none" THEN acc
    ELSE incompatibles_loop(
             self, existing_content, existing_content_descriptions, i + 1,
             incompatible_collect(
                 acc, i,
                 check_incompatible(self, self.incompatible[i], existing_content,
                                    existing_content_descriptions)))

\* Mod.check_incompatibles
check_incompatibles(self, existing_content, existing_content_descriptions) ==
    with_new_version_hint(
        incompatibles_loop(self, existing_content, existing_content_descriptions, 1,
                           [raised |-> "none", compatible |-> TRUE,
                            error_msg |-> <<>>, individual_incomp_status |-> <<>>]))

-----------------------------------------------------------------------------
(* Mod.check_reinstallability *)

SeqRange(seq) == {seq[i] : i \in 1..Len(seq)}

\* self_and_prereqs without the names of the prerequisites
SelfOnly(self) == {self.name}

\* self_and_prereqs
SelfAndPrereqs(self) ==
    {self.name} \cup UNION {SeqRange(self.prerequisites[i].name) :
                              i \in 1..Len(self.prerequisites)}

\* builds compared as numbers
build_newer_numeric(this_build, installed_build) ==
    IntOf(this_build) > IntOf(installed_build)

\* self.build > previous_install["build"], on str
build_newer(this_build, installed_build) == StrGreater(this_build, installed_build)

check_reinstallability(self, existing_content, existing_content_descriptions) ==
    LET previous_name ==
            IF IsInstalled(existing_content, self.name) THEN self.name
            ELSE IF /\ self.name = "community_remaster"
                    /\ IsInstalled(existing_content, "community_patch")
            THEN "community_patch"
            ELSE None
        previous_install == existing_content[previous_name]
        existing_other_mods == DOMAIN existing_content \ SelfAndPrereqs(self)
        result(can, warning) ==
            [is_reinstall |-> TRUE, can_be_reinstalled |-> can,
             reinstall_warning |-> warning,
             other_mods |-> IF warning = "cant_reinstall_over_other_mods"
                            THEN existing_other_mods ELSE {},
             existing_version |-> previous_name]
    IN IF previous_name = None
       THEN [is_reinstall |-> FALSE, can_be_reinstalled |-> TRUE,
             reinstall_warning |-> "", other_mods |-> {}, existing_version |-> None]
       ELSE IF existing_other_mods # {}
       THEN result(FALSE, "cant_reinstall_over_other_mods")
       ELSE IF Version_eq(Version(previous_install.version), Version(self.version))
       THEN IF self.build = previous_install.build
            THEN result(TRUE, IF Len(self.optional_content) > 0
                              THEN "complex_safe_reinstall" ELSE "safe_reinstall")
            ELSE IF build_newer(self.build, previous_install.build)
            THEN result(TRUE, IF Len(self.optional_content) > 0
                              THEN "complex_unsafe_reinstall" ELSE "unsafe_reinstall")
            ELSE result(FALSE, "cant_reinstall_over_newer_build")
       ELSE result(FALSE, "cant_reinstall_over_other_version")

-----------------------------------------------------------------------------
(* Mod.compatible_with_mod_manager *)

\* as prereq_operation, but "=" selects == and no prefix means ">="
manager_operation(version) ==
    IF Prefix(version, 2) = <<">", "=">> THEN "ge"
    ELSE IF Prefix(version, 2) = <<"<", "=">> THEN "le"
    ELSE IF Prefix(version, 1) = <<">">> THEN "gt"
    ELSE IF Prefix(version, 1) = <<"<">> THEN "lt"
    ELSE IF Prefix(version, 1) = <<"=">> THEN "eq"
    ELSE "ge"

\* one pass of the loop over patcher_version_requirement
manager_version_step(acc, op, parsed_required_ver, patcher_version_parsed) ==
    IF Version_lt_raises(parsed_required_ver, patcher_version_parsed)
    THEN [acc EXCEPT !.raised = "AttributeError"]
    ELSE [acc EXCEPT
            !.mod_manager_too_new =
                @ \/ (op = "eq" /\ Version_lt(parsed_required_ver, patcher_version_parsed)),
            !.compatible =
                @ /\ compare_operation(op, patcher_version_parsed, parsed_required_ver)]

RECURSIVE manager_versions_loop(_, _, _, _)
manager_versions_loop(requirement, commod_version, i, acc) ==
    IF i > Len(requirement) \/ acc.raised # "none" THEN acc
    ELSE manager_versions_loop(
             requirement, commod_version, i + 1,
             manager_version_step(acc, manager_operation(requirement[i]),
                                  Version(strip_signs(requirement[i])),
                                  Version(commod_version)))

\* return compatible, error_msg.strip()
manager_result(r) ==
    [raised |-> r.raised, compatible |-> r.compatible,
     error_msg |-> IF r.raised = "none" /\ ~r.compatible
                   THEN "usupported_patcher_version" ELSE ""]

compatible_with_mod_manager(self, version) ==
    manager_result(
        manager_versions_loop(self.patcher_version_requirement, version, 1,
                              [raised |-> "none", compatible |-> TRUE,
                               mod_manager_too_new |-> FALSE]))

\* bool() of what compatible_with_mod_manager returns, the tuple
\* (compatible, error_msg): a tuple with elements is true
truth_of_result(r) == Len(<<r.compatible, r.error_msg>>) > 0

\* Mod.check_requirements called with a patcher_version: "if patcher_version: if not
\* self.compatible_with_mod_manager(patcher_version): requirements_met &= False ..."
check_requirements_for(self, existing_content, existing_content_descriptions, version) ==
    LET r == compatible_with_mod_manager(self, version)
        unsupported == version # <<>> /\ r.raised = "none" /\ ~truth_of_result(r)
    IN IF version # <<>> /\ r.raised # "none"
       THEN [raised |-> r.raised, requirements_met |-> TRUE,
             error_msg |-> <<>>, individual_require_status |-> <<>>]
       ELSE with_new_version_hint(
                requirements_loop(
                    self, existing_content, existing_content_descriptions,
                    /\ ~IsInstalled(existing_content, "community_remaster")
                    /\ IsInstalled(existing_content, "community_patch"),
                    1,
                    [raised |-> "none", requirements_met |-> ~unsupported,
                     error_msg |-> IF unsupported
                                   THEN <<Msg("usupported_patcher_version", version)>>
                                   ELSE <<>>,
                     individual_require_status |-> <<>>]))

-----------------------------------------------------------------------------
(* Mod.load_commod_compatibility and Mod.load_session_compatibility, for a  *)
(* mod whose only loaded translation is itself                              *)

NoVerdict ==
    [commod_loaded |-> FALSE, commod_compatible |-> FALSE,
     session_loaded |-> FALSE, session_attempted |-> FALSE, raised |-> "none",
     compatible |-> FALSE, compatible_err |-> <<>>,
     prevalidated |-> FALSE, prevalidated_err |-> <<>>,
     is_reinstall |-> FALSE, can_be_reinstalled |-> FALSE,
     reinstall_warning |-> "", existing_version |-> None,
     can_install |-> FALSE,
     individual_require_status |-> <<>>, individual_incomp_status |-> <<>>]

\* translation.commod_compatible, translation.commod_compatible_err = ...
commod_verdict(v, r) ==
    IF r.raised # "none" THEN [v EXCEPT !.raised = r.raised]
    ELSE [v EXCEPT !.commod_loaded = TRUE, !.commod_compatible = r.compatible,
                   !.raised = "none"]

load_commod_compatibility(self, v, commod_version) ==
    commod_verdict(v, compatible_with_mod_manager(self, commod_version))

\* translation.can_install = (...)
can_install_of(commod_compatible, compatible, prevalidated, can_be_reinstalled) ==
    commod_compatible /\ compatible /\ prevalidated /\ can_be_reinstalled

\* the status list is left as the earlier run filled it
not_cleared(status) == status

\* "self.individual_require_status.clear()", "self.individual_incomp_status.clear()"
cleared(status) == <<>>

\* the assignments are made one after another: a raise keeps the earlier ones
session_verdict(v, req, inc, re) ==
    IF req.raised # "none"
    THEN [v EXCEPT !.raised = req.raised,
                   !.individual_require_status = cleared(@) \o req.individual_require_status]
    ELSE IF inc.raised # "none"
    THEN [v EXCEPT !.raised = inc.raised,
                   !.compatible = req.requirements_met,
                   !.compatible_err = req.error_msg,
                   !.individual_require_status = cleared(@) \o req.individual_require_status,
                   !.individual_incomp_status = cleared(@) \o inc.individual_incomp_status]
    ELSE [v EXCEPT
            !.raised = "none",
            !.session_loaded = TRUE,
            !.compatible = req.requirements_met,
            !.compatible_err = req.error_msg,
            !.individual_require_status = cleared(@) \o req.individual_require_status,
            !.prevalidated = inc.compatible,
            !.prevalidated_err = inc.error_msg,
            !.individual_incomp_status = cleared(@) \o inc.individual_incomp_status,
            !.is_reinstall = re.is_reinstall,
            !.can_be_reinstalled = re.can_be_reinstalled,
            !.reinstall_warning = re.reinstall_warning,
            !.existing_version = re.existing_version,
            !.can_install = can_install_of(v.commod_compatible, req.requirements_met,
                                           inc.compatible, re.can_be_reinstalled)]

load_session_compatibility(self, v, content, descriptions) ==
    session_verdict(v, check_requirements(self, content, descriptions),
                    check_incompatibles(self, content, descriptions),
                    check_reinstallability(self, content, descriptions))

-----------------------------------------------------------------------------
(* Mod.install: install_settings is a dict, kept as the sequence of its     *)
(* <<key, value>> pairs in insertion order                                  *)

HasKey(d, key) == \E i \in 1..Len(d) : d[i][1] = key

\* d.get(key)
Get(d, key) ==
    IF HasKey(d, key) THEN d[CHOOSE i \in 1..Len(d) : d[i][1] = key][2] ELSE None

\* the keys of self.options_dict
OptionNames(self) == {self.optional_content[i].name : i \in 1..Len(self.optional_content)}

\* os.path.join(self.distibution_dir, "data")
base_path(self) == <<self.name, "data">>

\* the "base" branch: both KeyErrors, then mod_files.append(base_path)
install_base_step(self, install_settings, acc) ==
    IF Get(install_settings, "base") = None
    THEN [acc EXCEPT !.raised = "KeyError"]
    ELSE IF \E o \in OptionNames(self) : Get(install_settings, o) = None
    THEN [acc EXCEPT !.raised = "KeyError"]
    ELSE [acc EXCEPT !.mod_files = Append(@, base_path(self))]

\* an option that is installed puts nothing in mod_files
option_jobs_none(self, install_setting, installation_prompt_result) == <<>>

\* what an option adds to mod_files: its data directory for "yes", nothing for
\* "skip", its data directory and then the directory of the chosen setting otherwise
option_jobs(self, install_setting, installation_prompt_result) ==
    IF installation_prompt_result = "yes"
    THEN <<<<self.name, install_setting, "data">>>>
    ELSE IF installation_prompt_result = "skip"
    THEN <<>>
    ELSE <<<<self.name, install_setting, "data">>,
           <<self.name, install_setting, installation_prompt_result>>>>

\* the else branch: self.options_dict[install_setting] raises KeyError on an
\* undeclared name, os.path.join raises TypeError on a None value
install_option_step(self, install_setting, installation_prompt_result, acc) ==
    IF install_setting \notin OptionNames(self)
    THEN [acc EXCEPT !.raised = "KeyError"]
    ELSE IF installation_prompt_result = None
    THEN [acc EXCEPT !.raised = "TypeError"]
    ELSE [acc EXCEPT !.mod_files =
              @ \o option_jobs(self, install_setting, installation_prompt_result)]

\* "for install_setting in install_settings:"
RECURSIVE mod_files_loop(_, _, _, _)
mod_files_loop(self, install_settings, i, acc) ==
    IF i > Len(install_settings) \/ acc.raised # "none" THEN acc
    ELSE mod_files_loop(
             self, install_settings, i + 1,
             IF install_settings[i][1] = "base"
             THEN install_base_step(self, install_settings, acc)
             ELSE install_option_step(self, install_settings[i][1],
                                      install_settings[i][2], acc))

\* the requirements never stop the install
requirements_gate_open(req) == TRUE

\* "if requirements_met:"
requirements_gate(req) == req.requirements_met

NoInstall == [status |-> FALSE, error_msgs |-> <<>>, copy_called |-> FALSE, mod_files |-> <<>>]

\* the returns of Mod.install; "except Exception" turns every raise, a failure of
\* copy_from_to included, into (False, [])
install_result(req, plan, copy_ok) ==
    IF req.raised # "none" THEN NoInstall
    ELSE IF ~requirements_gate(req) THEN [NoInstall EXCEPT !.error_msgs = req.error_msg]
    ELSE IF plan.raised # "none" THEN NoInstall
    ELSE [status |-> copy_ok, error_msgs |-> <<>>, copy_called |-> TRUE,
          mod_files |-> plan.mod_files]

\* Mod.install
install(self, install_settings, existing_content, existing_content_descriptions, copy_ok) ==
    install_result(
        check_requirements(self, existing_content, existing_content_descriptions),
        mod_files_loop(self, install_settings, 1, [raised |-> "none", mod_files |-> <<>>]),
        copy_ok)

-----------------------------------------------------------------------------
(* Mod.validate_dict: a value of a manifest is its Python type and, for a   *)
(* list or a dict, the types of what iterating over it gives; an entry of   *)
(* the types of a schema field is a plain type or a generic such as         *)
(* list[str], with its origin and its arguments; a field that get() does    *)
(* not find has the value PyNone                                            *)

PyNone == [type |-> "NoneType", items |-> <<>>]

PlainType(t) == [generic |-> FALSE, origin |-> t, args |-> {}]

GenericType(origin, args) == [generic |-> TRUE, origin |-> origin, args |-> args]

\* isinstance(value, t) for the types of a manifest: bool is a subclass of int
isinstance(type, t) == type = t \/ (t = "int" /\ type = "bool")

\* "for value_internal in value: if not isinstance(value_internal, get_args(...))"
items_valid(value, args) ==
    \A k \in 1..Len(value.items) : \E a \in args : isinstance(value.items[k], a)

\* the loop over the types of a field that has a generic among them: only the
\* generic entries are looked at, and only when the value is of their origin
RECURSIVE generic_types_loop(_, _, _, _)
generic_types_loop(value, types, i, valid_type) ==
    IF i > Len(types) THEN valid_type
    ELSE IF types[i].generic /\ isinstance(value.type, types[i].origin)
    THEN IF value.type \in {"dict", "list"}
         THEN generic_types_loop(value, types, i + 1,
                                 valid_type /\ items_valid(value, types[i].args))
         ELSE FALSE
    ELSE generic_types_loop(value, types, i + 1, valid_type)

\* valid_type of one field
valid_type(value, types) ==
    IF \A i \in 1..Len(types) : ~types[i].generic
    THEN \E i \in 1..Len(types) : isinstance(value.type, types[i].origin)
    ELSE generic_types_loop(value, types, 1, TRUE)

\* the loop over the fields of the scheme, a sequence of [field, types, required]
RECURSIVE validate_fields_loop(_, _, _)
validate_fields_loop(fields, scheme, i) ==
    IF i > Len(scheme) THEN TRUE
    ELSE LET value == IF scheme[i].field \in DOMAIN fields
                      THEN fields[scheme[i].field] ELSE PyNone
         IN IF scheme[i].required /\ value = PyNone THEN FALSE
            ELSE IF value # PyNone /\ ~valid_type(value, scheme[i].types) THEN FALSE
            ELSE validate_fields_loop(fields, scheme, i + 1)

\* Mod.validate_dict(validating_dict, scheme)
validate_dict(validating_dict, scheme) ==
    /\ validating_dict.type = "dict"
    /\ validate_fields_loop(validating_dict.fields, scheme, 1)

-----------------------------------------------------------------------------
(* Mod.validate_dict_constrained: a value is its type and its number in     *)
(* tenths (int(True) is 1, a string has no number and is never of a numeric *)
(* type of the scheme); a dict is a function of its keys                    *)

\* schema_patcher_options, the ranges in tenths
schema_patcher_options ==
    <<[field |-> "gravity", types |-> {"float"}, required |-> FALSE,
       ranged |-> TRUE, min_req |-> -1000, max_req |-> -10],
      [field |-> "skins_in_shop", types |-> {"int"}, required |-> FALSE,
       ranged |-> TRUE, min_req |-> 80, max_req |-> 320],
      [field |-> "blast_damage_friendly_fire", types |-> {"bool", "str"}, required |-> FALSE,
       ranged |-> FALSE, min_req |-> 0, max_req |-> 0],
      [field |-> "game_font", types |-> {"str"}, required |-> FALSE,
       ranged |-> FALSE, min_req |-> 0, max_req |-> 0]>>

\* "if ((float in types) or (int in types)) and (not (min_req <= value <= max_req))"
in_range_always(entry, value) == TRUE
in_range(entry, value) ==
    ~entry.ranged \/ (entry.min_req <= value.num /\ value.num <= entry.max_req)

\* the body of the loop for a field that is present
constrained_value_valid(entry, value) ==
    /\ \E t \in entry.types : isinstance(value.type, t)
    /\ in_range(entry, value)

\* "for field in scheme:"
RECURSIVE validate_constrained_loop(_, _, _)
validate_constrained_loop(fields, scheme, i) ==
    IF i > Len(scheme) THEN TRUE
    ELSE IF scheme[i].field \notin DOMAIN fields
    THEN ~scheme[i].required /\ validate_constrained_loop(fields, scheme, i + 1)
    ELSE /\ constrained_value_valid(scheme[i], fields[scheme[i].field])
         /\ validate_constrained_loop(fields, scheme, i + 1)

\* Mod.validate_dict_constrained(validating_dict, scheme)
validate_dict_constrained(validating_dict, scheme) ==
    validate_constrained_loop(validating_dict, scheme, 1)

\* "if patcher_options is not None: validated &= validate_dict_constrained(...)"
patcher_options_validated(patcher_options) ==
    ~patcher_options.present
    \/ validate_dict_constrained(patcher_options.fields, schema_patcher_options)

-----------------------------------------------------------------------------
(* Mod.validate_install_config: install_config is the parsed manifest; what  *)
(* validate_dict and validate_list say of a dict is its field schema_ok, an  *)
(* absent list is kept as the empty one, "name" of an entry is kept as the   *)
(* list of names, the dicts of install_settings are taken to meet their      *)
(* schema and are kept as their names, and dirs is the set of directories    *)
(* that exist beneath the folder of the mod, each as the list of its parts   *)

\* no entry is forbidden
entry_forbidden_never(kind, entry) == FALSE

\* has_forbidden_prerequisites / has_forbidden_icompabilities of one entry
entry_forbidden(kind, entry) ==
    IF kind = "prerequisites"
    THEN InSeq("community_patch", entry.name) /\ Len(entry.optional_content) > 0
    ELSE InSeq("community_patch", entry.name)

\* "for prereq_entry in prerequisites:" and "for incompatible_entry in incompatibles:",
\* then "validated &= not has_forbidden_..."
RECURSIVE validate_entries_loop(_, _, _, _, _)
validate_entries_loop(kind, entries, i, validated, has_forbidden) ==
    IF i > Len(entries) THEN validated /\ ~has_forbidden
    ELSE validate_entries_loop(
             kind, entries, i + 1,
             validated /\ entries[i].schema_ok,
             has_forbidden \/ (validated /\ entries[i].schema_ok /\ entry_forbidden(kind, entries[i])))

\* no name is reserved
reserved_name_never(name) == FALSE

\* option.get("name") in ["base", "display_name", "build", "version"]
reserved_name(name) == name \in {"base", "display_name", "build", "version"}

\* "for option in optional_content:"
RECURSIVE validate_options_loop(_, _, _)
validate_options_loop(optional_content, i, validated) ==
    IF i > Len(optional_content) THEN validated
    ELSE validate_options_loop(
             optional_content, i + 1,
             /\ ~reserved_name(optional_content[i].name) /\ validated
             /\ Len(optional_content[i].install_settings) # 1
             /\ patcher_options_validated(optional_content[i].patcher_options))

\* "validated &= Mod.validate_list(optional_content, schema_optional_content)",
\* "if validated: for option in optional_content:"
validate_optional_content(optional_content, validated) ==
    IF validated /\ \A i \in 1..Len(optional_content) : optional_content[i].schema_ok
    THEN validate_options_loop(optional_content, 1, TRUE)
    ELSE FALSE

\* str.lower() on the letters of the values of no_base_content
lower(text) ==
    [i \in DOMAIN text |-> IF text[i] = "T" THEN "t" ELSE IF text[i] = "F" THEN "f" ELSE text[i]]

\* Mod.__init__: self.no_base_content of the value of the manifest
no_base_content_of(value) ==
    IF value.type = "NoneType" THEN [raised |-> "none", no_base_content |-> FALSE]
    ELSE IF value.type = "bool"
    THEN [raised |-> "none", no_base_content |-> value.text = <<"T", "r", "u", "e">>]
    ELSE IF lower(value.text) = <<"t", "r", "u", "e">>
    THEN [raised |-> "none", no_base_content |-> TRUE]
    ELSE IF lower(value.text) = <<"f", "a", "l", "s", "e">>
    THEN [raised |-> "none", no_base_content |-> FALSE]
    ELSE [raised |-> "ValueError", no_base_content |-> FALSE]

\* "if install_config.get('name') == 'community_remaster': mod_identifier = 'remaster'"
mod_identifier(name) == IF name = "community_remaster" THEN "remaster" ELSE name

\* the truth value of install_config.get("no_base_content"): None, a bool or a str
truth_value(value) ==
    IF value.type = "bool" THEN value.text = <<"T", "r", "u", "e">>
    ELSE value.type = "str" /\ value.text # <<>>

\* the directory of an option and of each of its install settings
option_dirs_exist(identifier, option, dirs) ==
    /\ <<identifier, option.name>> \in dirs
    /\ \A k \in 1..Len(option.install_settings) :
          <<identifier, option.name, option.install_settings[k]>> \in dirs

\* "if not skip_data_validation:", with "if not install_config.get('no_base_content'):
\* validated &= os.path.isdir(.../data)"
data_validated(install_config, skip_data_validation) ==
    \/ skip_data_validation
    \/ /\ ~truth_value(install_config.no_base_content) =>
             <<mod_identifier(install_config.name), "data">> \in install_config.dirs
       /\ \A i \in 1..Len(install_config.optional_content) :
             option_dirs_exist(mod_identifier(install_config.name),
                               install_config.optional_content[i], install_config.dirs)

\* Mod.validate_install_config
validate_install_config(install_config, skip_data_validation) ==
    /\ install_config.is_dict
    /\ validate_optional_content(
           install_config.optional_content,
           validate_entries_loop(
               "incompatible", install_config.incompatible, 1,
               validate_entries_loop(
                   "prerequisites", install_config.prerequisites, 1,
                   /\ install_config.schema_ok
                   /\ patcher_options_validated(install_config.patcher_options),
                   FALSE),
               FALSE))
    /\ data_validated(install_config, skip_data_validation)

-----------------------------------------------------------------------------
(* validate_archive_mod_paths: a file of the listing is its filename, as the *)
(* list of its parts, and its emptystream flag; a name of archive_files is a *)
(* str with or without a trailing slash, a base path is a pathlib.Path       *)

\* "if file.emptystream: archive_files.append(f'{file.filename}/') else: ...filename"
archive_name(file) == [type |-> "str", parts |-> file.filename, slash |-> file.emptystream]

\* Path(mod_config_path).parent / base_dir for data_dirs, or "data", then bin_dirs
mod_base_paths(mod_dir, data_dirs, bin_dirs) ==
    {[type |-> "Path", parts |-> Append(mod_dir, d), slash |-> FALSE] :
        d \in (IF data_dirs # {} THEN data_dirs ELSE {"data"}) \cup bin_dirs}

\* validate_archive_mod_paths(mod, mod_config_path, archive_file_list): the test
\* isinstance(archive_file_list, list[ZipInfo]) raises TypeError for whatever is
\* not a py7zr.ArchiveFileList, and "if self.optional_content:" raises NameError,
\* the function having no self
validate_archive_mod_paths(archive_mod, mod_dir, archive_kind, archive_file_list) ==
    IF archive_kind # "7z" THEN [raised |-> "TypeError", validated |-> FALSE]
    ELSE IF /\ ~archive_mod.no_base_content
            /\ \E path \in mod_base_paths(mod_dir, archive_mod.data_dirs,
                                           archive_mod.bin_dirs) :
                  path \notin {archive_name(file) : file \in archive_file_list}
    THEN [raised |-> "none", validated |-> FALSE]
    ELSE [raised |-> "NameError", validated |-> FALSE]

-----------------------------------------------------------------------------
(* Mod.load_translations: files[lang] is manifest_<lang>.yaml, with the Mod   *)
(* made of it when it is validated                                          *)

\* the body of "for lang, _ in self.translations.items():"
translation_step(self, lang, file, acc) ==
    IF ~file.exists THEN [acc EXCEPT !.raised = "ValueError"]
    ELSE IF ~file.config_validated THEN acc
    ELSE IF \/ file.mod_tr.name # self.name
            \/ file.mod_tr.version # self.version
            \/ file.mod_tr.tags # self.tags
            \/ file.mod_tr.language # lang
            \/ file.mod_tr.language = self.language
    THEN [acc EXCEPT !.raised = "ValueError"]
    ELSE [acc EXCEPT !.translations_loaded = (lang :> file.mod_tr) @@ @]

RECURSIVE translations_loop(_, _, _, _, _)
translations_loop(self, translations, files, i, acc) ==
    IF i > Len(translations) \/ acc.raised # "none" THEN acc
    ELSE translations_loop(self, translations, files, i + 1,
                           translation_step(self, translations[i], files[translations[i]], acc))

\* Mod.load_translations
load_translations(self, translations, files) ==
    translations_loop(self, translations, files, 1,
                      [raised |-> "none", translations_loaded |-> (self.language :> self)])

-----------------------------------------------------------------------------
(* Inputs *)

V_1_0_0 == <<"1", ".", "0", ".", "0">>
V_1_0_0_rc1 == <<"1", ".", "0", ".", "0", "-", "r", "c", "1">>
V_1_2_3 == <<"1", ".", "2", ".", "3">>
V_1_2_3_beta == <<"1", ".", "2", ".", "3", "-", "b", "e", "t", "a">>
V_2_3_1 == <<"2", ".", "3", ".", "1">>
V_2_0 == <<"2", ".", "0">>
V_0_5 == <<"0", ".", "5">>
V_1_a == <<"1", ".", "a">>
V_1_10 == <<"1", ".", "1", "0">>

Build_7 == <<"7">>
Build_10 == <<"1", "0">>
Build_1 == <<"1">>

Installments == {"exmachina", "m113"}

InstalledVersions == {V_1_0_0, V_1_0_0_rc1, V_2_3_1, V_1_a}

\* constraint literals of a manifest: every operator prefix, with and without identifier
Constraints ==
    {V_1_0_0, <<"=">> \o V_1_0_0, <<"=">> \o V_1_0_0_rc1,
     <<">", "=">> \o V_2_0, <<"<", "=">> \o V_2_0,
     <<">">> \o V_1_0_0, <<"<">> \o V_2_0,
     <<">", "=">> \o V_1_0_0, <<"<">> \o V_1_0_0}

\* all sequences over S of length at most n
RECURSIVE SeqsUpTo(_, _)
SeqsUpTo(S, n) ==
    IF n = 0 THEN {<<>>}
    ELSE LET shorter == SeqsUpTo(S, n - 1)
         IN shorter \cup {Append(q, x) : q \in {r \in shorter : Len(r) = n - 1}, x \in S}

ConstraintSeqs == SeqsUpTo(Constraints, MaxConstraints)

NoOptions == [o \in {} |-> "yes"]

OptionMaps ==
    {NoOptions,
     [o \in {"hd"} |-> "yes"],
     [o \in {"hd"} |-> "skip"],
     [o \in {"hd", "ost"} |-> IF o = "hd" THEN "skip" ELSE "yes"]}

Entry(name, version, build, installment, options) ==
    [version |-> version, build |-> build, language |-> "eng",
     installment |-> installment, display_name |-> name,
     base |-> "yes", options |-> options]

DependencyEntry(names, versions, optional_content) ==
    [name |-> names, versions |-> versions, optional_content |-> optional_content]

Option(name, install_settings) == [name |-> name, install_settings |-> install_settings, default_option |-> None]

ModManifest(name, version, build, installment, prerequisites, incompatible, optional_content, requirement) ==
    [name |-> name, version |-> version, build |-> build,
     installment |-> installment,
     prerequisites |-> prerequisites, incompatible |-> incompatible,
     optional_content |-> optional_content,
     patcher_version_requirement |-> requirement,
     no_base_content |-> FALSE, vanilla_mod |-> FALSE, config_options |-> FALSE,
     safe_reinstall_options |-> FALSE]

Scenario(m, content, descriptions, installment, tool) ==
    [mod |-> m, installed_content |-> content, installed_descriptions |-> descriptions,
     game_installment |-> installment, patcher_version |-> tool]

NoContent == [n \in {} |-> Entry("", V_1_0_0, Build_1, "exmachina", NoOptions)]

DescriptionsOf(names) == [n \in names |-> "description"]

DefaultRequirement == <<<<">", "=">> \o V_1_10>>

\* one dependency entry on beta, as a prerequisite or as an incompatible, with
\* every constraint list against every installed version
VersionScenarios ==
    {Scenario(ModManifest("alpha", V_1_0_0, Build_1, "exmachina",
                          IF pos = "prereq"
                          THEN <<DependencyEntry(<<"beta">>, vs, <<>>)>> ELSE <<>>,
                          IF pos = "incomp"
                          THEN <<DependencyEntry(<<"beta">>, vs, <<>>)>> ELSE <<>>,
                          <<>>, DefaultRequirement),
              [n \in {"beta"} |-> Entry("Beta", iv, Build_1, "exmachina", NoOptions)],
              DescriptionsOf(d), "exmachina", V_2_0) :
        pos \in {"prereq", "incomp"}, vs \in ConstraintSeqs,
        iv \in InstalledVersions, d \in {{}, {"beta"}}}

NameSeqs ==
    {<<"beta">>, <<"beta", "gamma">>, <<"gamma", "beta">>, <<"community_remaster">>,
     <<"community_patch">>, <<"community_patch", "community_remaster">>}

\* what validate_install_config lets through: no optional content on a prerequisite
\* that names community_patch, no incompatible that names community_patch
PassesValidation(pos, names, opts) ==
    IF pos = "prereq"
    THEN ~(Contains(names, "community_patch") /\ Len(opts) > 0)
    ELSE ~Contains(names, "community_patch")

OtherMods == {"beta", "gamma", "community_patch", "community_remaster"}

InstalledSets == {S \in SUBSET OtherMods : Cardinality(S) <= 2}

VersionOf(name) == IF name = "gamma" THEN V_0_5 ELSE V_1_0_0

\* alternatives, required options and the set of installed mods
NameScenariosOf(self) ==
    {Scenario(ModManifest(self, V_1_0_0, Build_1, "exmachina",
                          IF shape.pos = "prereq"
                          THEN <<DependencyEntry(shape.names, vs, shape.opts)>> ELSE <<>>,
                          IF shape.pos = "incomp"
                          THEN <<DependencyEntry(shape.names, vs, shape.opts)>> ELSE <<>>,
                          <<>>, DefaultRequirement),
              [n \in S |-> Entry(n, VersionOf(n), Build_1, "exmachina", om)],
              DescriptionsOf(IF described THEN S ELSE {}), "exmachina", V_2_0) :
        shape \in {x \in [pos : {"prereq", "incomp"}, names : NameSeqs,
                          opts : {<<>>, <<"hd">>, <<"hd", "ost">>}] :
                     PassesValidation(x.pos, x.names, x.opts) /\ ~Contains(x.names, self)},
        vs \in {<<>>, <<V_1_0_0>>},
        S \in InstalledSets, om \in OptionMaps, described \in BOOLEAN}

NameScenarios == UNION {NameScenariosOf(self) : self \in {"alpha", "community_remaster"}}

ReinstallVersions == {V_1_0_0, V_1_0_0_rc1, V_1_a}

Builds == {Build_7, Build_10}

\* (installment of the mod, its requirement on the mod manager)
Environments ==
    {<<"exmachina", DefaultRequirement>>, <<"m113", DefaultRequirement>>,
     <<"exmachina", <<<<"=">> \o V_1_0_0>>>>}

PreviousName(self, previous) == IF previous = "self" THEN self ELSE previous

\* the mod itself installed or not, other mods around it, every conjunct of can_install
ReinstallScenarios ==
    {Scenario(ModManifest(self, mv, mb, env[1],
                          IF with_prereq
                          THEN <<DependencyEntry(<<"beta">>, <<>>, <<>>)>> ELSE <<>>,
                          <<>>,
                          IF complex THEN <<Option("hd", <<>>)>> ELSE <<>>,
                          env[2]),
              [n \in (IF previous = "none" THEN {} ELSE {PreviousName(self, previous)})
                        \cup others |->
                  IF n = PreviousName(self, previous)
                  THEN Entry(n, prev.version, prev.build, "exmachina", NoOptions)
                  ELSE Entry(n, VersionOf(n), Build_1, "exmachina", NoOptions)],
              DescriptionsOf((IF previous = "none" THEN {}
                              ELSE {PreviousName(self, previous)}) \cup others),
              "exmachina", V_2_0) :
        self \in {"alpha", "community_remaster"},
        mv \in ReinstallVersions, mb \in Builds, env \in Environments,
        with_prereq \in BOOLEAN, complex \in BOOLEAN,
        previous \in {"none", "self", "community_patch"},
        prev \in [version : {V_1_0_0, V_2_3_1, V_1_a}, build : Builds],
        others \in {{}, {"beta"}, {"beta", "gamma"}}}

Scenarios == VersionScenarios \cup NameScenarios \cup ReinstallScenarios

-----------------------------------------------------------------------------
(* The resolver applied to one (manifest, snapshot) pair *)

NoCall == [fn |-> "none"]

IdleWizard ==
    [pc |-> "idle", status_ok |-> FALSE, failure |-> "none",
     install_settings |-> <<>>, disk_pre |-> NoContent,
     close_disabled |-> FALSE, patched |-> FALSE, copied |-> FALSE,
     copy_ok |-> FALSE, mod_files |-> <<>>,
     options |-> <<>>, default_install_btn_disabled |-> TRUE,
     dll_exists |-> TRUE, log |-> <<>>]

NoHistory == [runs |-> 0, ok_mods |-> {}, failed_mods |-> {}]

\* a session and a context that loaded nothing, an empty distribution directory
NoSession == [mods |-> <<>>, tracked_mods_hashes |-> <<>>]

NoContext == [validated_mods |-> <<>>, hashed_mod_manifests |-> <<>>]

NoDistribution == <<>>

\* the app with no alert shown and no wizard on the page
IdleApp == [game_is_running |-> FALSE, alert |-> None, overlay |-> FALSE,
            probed |-> FALSE, is_running |-> FALSE,
            game |-> "", current_game |-> "", displayed |-> "", games |-> {},
            home_game_is_running |-> FALSE,
            current_game_process |-> <<>>, game_change_time |-> <<>>,
            now |-> 0, procs |-> <<>>, handlers |-> <<>>, trackers |-> 0,
            outside |-> "none"]

\* the parts of the app an operation on one mod does not look at
AppAtRest ==
    /\ session = NoSession
    /\ context = NoContext
    /\ distribution = NoDistribution
    /\ app = IdleApp

InitResolve ==
    \E sc \in Scenarios :
        /\ mod = sc.mod
        /\ installed_content = sc.installed_content
        /\ installed_descriptions = sc.installed_descriptions
        /\ manifest_disk = sc.installed_content
        /\ game_installment = sc.game_installment
        /\ patcher_version = sc.patcher_version
        /\ verdict = NoVerdict
        /\ call = NoCall
        /\ content_in_processing = NoContent
        /\ wizard = IdleWizard
        /\ history = NoHistory
        /\ AppAtRest

IsCompatchEnv(content) ==
    ~IsInstalled(content, "community_remaster") /\ IsInstalled(content, "community_patch")

CallCheckRequirement ==
    /\ call = NoCall
    /\ \E i \in 1..Len(mod.prerequisites) :
          call' = [fn |-> "check_requirement", entry |-> i,
                   result |-> check_requirement(mod, mod.prerequisites[i],
                                                installed_content, installed_descriptions,
                                                IsCompatchEnv(installed_content))]
    /\ UNCHANGED <<mod, installed_content, installed_descriptions, manifest_disk,
                   game_installment, patcher_version, verdict,
                   content_in_processing, wizard, history,
                   session, context, distribution, app>>

CallCheckIncompatible ==
    /\ call = NoCall
    /\ \E i \in 1..Len(mod.incompatible) :
          call' = [fn |-> "check_incompatible", entry |-> i,
                   result |-> check_incompatible(mod, mod.incompatible[i],
                                                 installed_content, installed_descriptions)]
    /\ UNCHANGED <<mod, installed_content, installed_descriptions, manifest_disk,
                   game_installment, patcher_version, verdict,
                   content_in_processing, wizard, history,
                   session, context, distribution, app>>

CallCheckReinstallability ==
    /\ call = NoCall
    /\ call' = [fn |-> "check_reinstallability", entry |-> 0,
                result |-> check_reinstallability(mod, installed_content,
                                                  installed_descriptions)]
    /\ UNCHANGED <<mod, installed_content, installed_descriptions, manifest_disk,
                   game_installment, patcher_version, verdict,
                   content_in_processing, wizard, history,
                   session, context, distribution, app>>

LoadCommodCompatibility ==
    /\ ~verdict.commod_loaded /\ verdict.raised = "none"
    /\ verdict' = load_commod_compatibility(mod, verdict, patcher_version)
    /\ UNCHANGED <<mod, installed_content, installed_descriptions, manifest_disk,
                   game_installment, patcher_version, call,
                   content_in_processing, wizard, history,
                   session, context, distribution, app>>

\* history.runs counts the calls
LoadSessionCompatibility ==
    /\ verdict.commod_loaded
    /\ history.runs < MaxRuns
    /\ verdict' = [load_session_compatibility(mod, verdict, installed_content,
                                              installed_descriptions)
                      EXCEPT !.session_attempted = TRUE]
    /\ history' = [history EXCEPT !.runs = @ + 1]
    /\ UNCHANGED <<mod, installed_content, installed_descriptions, manifest_disk,
                   game_installment, patcher_version, call,
                   content_in_processing, wizard,
                   session, context, distribution, app>>

NextResolve ==
    \/ CallCheckRequirement
    \/ CallCheckIncompatible
    \/ CallCheckReinstallability
    \/ LoadCommodCompatibility
    \/ LoadSessionCompatibility

SpecResolve == InitResolve /\ [][NextResolve]_vars

-----------------------------------------------------------------------------
(* Mod.install applied to a mod, its surroundings and an install_settings dict *)

HdOption == Option("hd", <<>>)
OstOption == Option("ost", <<"low", "high">>)

\* the optional content a mod declares: none, or a plain option and one with settings
OptionLists == {<<>>, <<HdOption, OstOption>>}

\* the prerequisites of the mod and what is installed: nothing required, beta
\* required and missing, beta required and there, beta required at a version whose
\* comparison with the installed one raises
InstallEnvironments ==
    {[prerequisites |-> <<>>, installed |-> {}, version |-> V_1_0_0],
     [prerequisites |-> <<DependencyEntry(<<"beta">>, <<>>, <<>>)>>,
      installed |-> {}, version |-> V_1_0_0],
     [prerequisites |-> <<DependencyEntry(<<"beta">>, <<>>, <<>>)>>,
      installed |-> {"beta"}, version |-> V_1_0_0],
     [prerequisites |-> <<DependencyEntry(<<"beta">>, <<<<">", "=">> \o V_1_0_0>>, <<>>)>>,
      installed |-> {"beta"}, version |-> V_1_a]}

SelectionKeys == {"base", "hd", "ost", "bogus"}
SelectionValues == {"yes", "skip", "high", None}

SelectionItems == {<<k, v>> : k \in SelectionKeys, v \in SelectionValues}

\* dicts of at most MaxSelection keys, in every insertion order
Selections ==
    {d \in SeqsUpTo(SelectionItems, MaxSelection) :
        \A i, j \in 1..Len(d) : i # j => d[i][1] # d[j][1]}

InitInstall ==
    /\ \E e \in InstallEnvironments :
          /\ \E o \in OptionLists, b \in BOOLEAN :
                mod = [ModManifest("alpha", V_1_0_0, Build_1, "exmachina",
                                   e.prerequisites, <<>>, o, DefaultRequirement)
                          EXCEPT !.no_base_content = b]
          /\ installed_content =
                [n \in e.installed |-> Entry(n, e.version, Build_1, "exmachina", NoOptions)]
          /\ installed_descriptions = DescriptionsOf(e.installed)
    /\ \E d \in Selections : wizard = [IdleWizard EXCEPT !.install_settings = d]
    /\ manifest_disk = NoContent
    /\ game_installment = "exmachina"
    /\ patcher_version = V_2_0
    /\ verdict = NoVerdict
    /\ call = NoCall
    /\ content_in_processing = NoContent
    /\ history = NoHistory
    /\ AppAtRest

\* mod.install(game_data_path, install_settings, existing_content, descriptions, console)
CallInstall ==
    /\ call = NoCall
    /\ \E copy_ok \in BOOLEAN :
          call' = [fn |-> "install", entry |-> 0,
                   result |-> install(mod, wizard.install_settings, installed_content,
                                      installed_descriptions, copy_ok)]
    /\ UNCHANGED <<mod, installed_content, installed_descriptions, manifest_disk,
                   game_installment, patcher_version, verdict,
                   content_in_processing, wizard, history,
                   session, context, distribution, app>>

NextInstall == CallInstall

SpecInstall == InitInstall /\ [][NextInstall]_vars

-----------------------------------------------------------------------------------------------------------------------------------------------------
(* ModInstallWizard.show_install_progress, one install run after another    *)

\* the mods loaded in the session
AlphaMod ==
    ModManifest("alpha", V_1_0_0, Build_1, "exmachina", <<>>, <<>>, <<>>, DefaultRequirement)

BetaMod ==
    [ModManifest("beta", V_2_0, Build_1, "exmachina",
                 <<DependencyEntry(<<"alpha">>, <<>>, <<>>)>>, <<>>,
                 <<Option("hd", <<>>)>>, DefaultRequirement)
        EXCEPT !.vanilla_mod = TRUE, !.config_options = TRUE]

RemasterMod ==
    ModManifest("community_remaster", V_1_0_0, Build_1, "exmachina", <<>>, <<>>,
                <<>>, DefaultRequirement)

SessionMods == {AlphaMod, BetaMod, RemasterMod}

\* the failures of a run that happen once file copying has begun
FailuresAfterCopy == {"copy_status", "config_edit", "dll_missing", "patch_error"}

\* dict | dict: the right operand wins
Merge(a, b) ==
    [n \in DOMAIN a \cup DOMAIN b |-> IF n \in DOMAIN b THEN b[n] ELSE a[n]]

\* what the install button allows: can_install as the last refresh resolved it
CanInstallNow(m) ==
    LET v == load_session_compatibility(
                 m, load_commod_compatibility(m, NoVerdict, patcher_version),
                 installed_content, installed_descriptions)
    IN v.raised = "none" /\ v.session_loaded /\ v.can_install

\* existing_install.get(option.name) of game.installed_content.get(mod.name)
ExistingContent(m, content, option) ==
    IF m.name \in DOMAIN content /\ option.name \in DOMAIN content[m.name].options
    THEN content[m.name].options[option.name]
    ELSE None

Checkbox(data, value, disabled) == [data |-> data, value |-> value, disabled |-> disabled]

\* "disabled=bool(self.existing_content) and self.existing_content != 'skip'"
checkbox_disabled(existing_content) == existing_content # "" /\ existing_content # "skip"

\* ModOption.__init__ and build: one checkbox per setting, or the single checkbox
\* of a flat option, preset from the previous install or from default_option
ModOption(option, existing_content) ==
    [option |-> option, existing_content |-> existing_content,
     complex_selector |-> option.install_settings # <<>>,
     checkboxes |->
        IF option.install_settings # <<>>
        THEN [k \in 1..Len(option.install_settings) |->
                 Checkbox(option.install_settings[k],
                          IF existing_content # ""
                          THEN option.install_settings[k] = existing_content
                          ELSE option.install_settings[k] = option.default_option,
                          checkbox_disabled(existing_content))]
        ELSE <<Checkbox("default",
                        IF existing_content # ""
                        THEN existing_content = "yes"
                        ELSE option.default_option = None,
                        checkbox_disabled(existing_content))>>]

\* "mod.is_reinstall and not mod.safe_reinstall_options"
forced_options(m, is_reinstall) == is_reinstall /\ ~m.safe_reinstall_options

\* the card of one option in show_settings_screen
option_card(option, forced, existing_content) ==
    IF forced /\ existing_content # None
    THEN ModOption(option, existing_content)
    ELSE ModOption(option, "")

\* show_settings_screen: self.options
settings_cards(m, content, is_reinstall) ==
    [i \in 1..Len(m.optional_content) |->
        option_card(m.optional_content[i], forced_options(m, is_reinstall),
                    ExistingContent(m, content, m.optional_content[i]))]

\* the value a flat checkbox has by default
flat_default(option) == option.default_option # "skip"

\* checkbox_action on the checkboxes of a card: the clicked one takes the new
\* value, and ticking a setting unticks the other settings
clicked(card, k, value) ==
    [card EXCEPT !.checkboxes =
        [c \in 1..Len(card.checkboxes) |->
            IF c = k THEN [card.checkboxes[c] EXCEPT !.value = value]
            ELSE IF card.complex_selector /\ value
            THEN [card.checkboxes[c] EXCEPT !.value = FALSE]
            ELSE card.checkboxes[c]]]

\* changed_from_default in checkbox_action
changed_from_default(card, k, value) ==
    IF ~card.complex_selector
    THEN IF card.option.default_option = "skip" THEN value ELSE ~value
    ELSE (IF value THEN card.checkboxes[k].data ELSE "skip") # card.option.default_option

\* change_to_default: is_default_install looks at the flat options only
is_default_install(options) ==
    \A i \in 1..Len(options) :
        ~options[i].complex_selector
        => options[i].checkboxes[1].value = flat_default(options[i].option)

\* what checkbox_action does to the "recommended install" button
default_btn_after_click(card, k, value, options, disabled) ==
    IF card.existing_content # "" THEN disabled
    ELSE IF changed_from_default(card, k, value) THEN FALSE
    ELSE IF is_default_install(options) THEN TRUE
    ELSE disabled

\* set_option_cards_default on one card
card_default(card) ==
    [card EXCEPT !.checkboxes =
        [c \in 1..Len(card.checkboxes) |->
            [card.checkboxes[c] EXCEPT !.value =
                IF ~card.complex_selector THEN flat_default(card.option)
                ELSE card.checkboxes[c].data = card.option.default_option]]]

\* the value read from a card with settings: "skip", or the data of the last
\* ticked checkbox
RECURSIVE chosen_setting(_, _, _)
chosen_setting(checkboxes, k, acc) ==
    IF k > Len(checkboxes) THEN acc
    ELSE chosen_setting(checkboxes, k + 1,
                        IF checkboxes[k].value THEN checkboxes[k].data ELSE acc)

\* install_settings[option.name] as show_install_progress reads it from a card
card_choice(card) ==
    IF card.complex_selector THEN chosen_setting(card.checkboxes, 1, "skip")
    ELSE IF card.checkboxes[1].value THEN "yes" ELSE "skip"

\* install_settings as show_install_progress collects them: "base" first, then the
\* option cards in their order
read_install_settings(m, options) ==
    <<<<"base", IF m.no_base_content THEN "skip" ELSE "yes">>>>
      \o [i \in 1..Len(options) |-> <<options[i].option.name, card_choice(options[i])>>]

\* the repr of a str: the version between quotes
version_repr_quoted(version) == <<"'">> \o version \o <<"'">>

\* f"{mod.version!r}": Mod.Version.__repr__ is str(self)
version_repr(version) == Version_str(Version(version))

\* session.content_in_processing[mod.name] = install_settings plus the mod's identity
ProcessedEntry(m, settings) ==
    [version |-> version_repr(m.version), build |-> m.build,
     language |-> "eng", installment |-> m.installment, display_name |-> m.name,
     base |-> Get(settings, "base"),
     options |-> [o \in OptionNames(m) |-> Get(settings, o)]]

is_comrem_or_patch(m) == m.name \in {"community_remaster", "community_patch"}

\* the manifest merged and dumped whatever the status
should_dump_always(status_ok) == TRUE

\* "if status_ok:" before the manifest is merged and dumped
should_dump(status_ok) == status_ok

Init ==
    /\ mod \in SessionMods
    /\ installed_content = NoContent
    /\ installed_descriptions = DescriptionsOf({})
    /\ manifest_disk = NoContent
    /\ game_installment = "exmachina"
    /\ patcher_version = V_2_0
    /\ verdict = NoVerdict
    /\ call = NoCall
    /\ content_in_processing = NoContent
    /\ wizard = IdleWizard
    /\ history = NoHistory
    /\ AppAtRest

\* the install button of a mod item is disabled while the mod cannot be installed
\* or local_mods.game_is_running is set
InstallButtonEnabled(m) == CanInstallNow(m) /\ ~app.game_is_running

\* the probe never refuses an install
refuses_never(is_running) == FALSE

\* "if self.app.game.check_is_running():"
refuses(is_running) == is_running

\* LocalModsScreen.did_mount_async and keep_track_of_game_proc: the flag follows
\* what the probe, or the tracked game process, says
LocalModsMounted ==
    /\ wizard.pc = "idle"
    /\ \E is_running \in BOOLEAN : app' = [app EXCEPT !.game_is_running = is_running]
    /\ UNCHANGED <<mod, installed_content, installed_descriptions, manifest_disk,
                   game_installment, patcher_version, verdict, call,
                   content_in_processing, wizard, history,
                   session, context, distribution>>

\* ModItem.install_mod: the alert and the flag when the game runs, else the wizard
\* is put on the page unless the page has an overlay already
InstallMod ==
    /\ wizard.pc = "idle"
    /\ history.runs < MaxRuns
    /\ \E m \in SessionMods, is_running \in BOOLEAN :
          /\ InstallButtonEnabled(m)
          /\ IF refuses(is_running)
             THEN /\ app' = [app EXCEPT !.alert = "game_is_running",
                                        !.game_is_running = TRUE,
                                        !.probed = TRUE, !.is_running = is_running]
                  /\ UNCHANGED <<mod, wizard>>
             ELSE IF ~app.overlay
             THEN /\ app' = [app EXCEPT !.overlay = TRUE, !.probed = TRUE,
                                        !.is_running = is_running]
                  /\ mod' = m
                  /\ wizard' = [IdleWizard EXCEPT !.pc = "welcome"]
             ELSE /\ app' = [app EXCEPT !.probed = TRUE, !.is_running = is_running]
                  /\ UNCHANGED <<mod, wizard>>
    /\ UNCHANGED <<installed_content, installed_descriptions, manifest_disk,
                   game_installment, patcher_version, verdict, call,
                   content_in_processing, history,
                   session, context, distribution>>

\* close_wizard on the welcome or settings screen
CloseWizard ==
    /\ wizard.pc \in {"welcome", "settings"}
    /\ wizard' = IdleWizard
    /\ app' = [app EXCEPT !.overlay = FALSE]
    /\ UNCHANGED <<mod, installed_content, installed_descriptions, manifest_disk,
                   game_installment, patcher_version, verdict, call,
                   content_in_processing, history,
                   session, context, distribution>>

\* is_reinstall as the last refresh resolved it
IsReinstallNow(m) ==
    check_reinstallability(m, installed_content, installed_descriptions).is_reinstall

\* agree_to_install of a mod with optional content: show_settings_screen
ShowSettingsScreen ==
    /\ wizard.pc = "welcome"
    /\ mod.optional_content # <<>>
    /\ wizard' = [wizard EXCEPT
                     !.pc = "settings",
                     !.options = settings_cards(mod, installed_content, IsReinstallNow(mod)),
                     !.default_install_btn_disabled = TRUE]
    /\ UNCHANGED <<mod, installed_content, installed_descriptions, manifest_disk,
                   game_installment, patcher_version, verdict, call,
                   content_in_processing, history,
                   session, context, distribution, app>>

\* ModOption.checkbox_action: the user clicks a checkbox that is not disabled
CheckboxAction ==
    /\ wizard.pc = "settings"
    /\ \E i \in 1..Len(wizard.options) :
          \E k \in 1..Len(wizard.options[i].checkboxes) :
             /\ ~wizard.options[i].checkboxes[k].disabled
             /\ wizard' = [wizard EXCEPT
                   !.options[i] = clicked(@, k, ~@.checkboxes[k].value),
                   !.default_install_btn_disabled =
                       default_btn_after_click(
                           wizard.options[i], k, ~wizard.options[i].checkboxes[k].value,
                           [wizard.options EXCEPT ![i] =
                               clicked(@, k, ~@.checkboxes[k].value)],
                           @)]
    /\ UNCHANGED <<mod, installed_content, installed_descriptions, manifest_disk,
                   game_installment, patcher_version, verdict, call,
                   content_in_processing, history,
                   session, context, distribution, app>>

\* set_to_default: the "recommended install" button, when it is not disabled
SetToDefault ==
    /\ wizard.pc = "settings"
    /\ ~wizard.default_install_btn_disabled
    /\ wizard' = [wizard EXCEPT
                     !.options = [i \in 1..Len(wizard.options) |-> card_default(wizard.options[i])],
                     !.default_install_btn_disabled = TRUE]
    /\ UNCHANGED <<mod, installed_content, installed_descriptions, manifest_disk,
                   game_installment, patcher_version, verdict, call,
                   content_in_processing, history,
                   session, context, distribution, app>>

\* whether dxrender9.dll is in the game root: the file is looked for only when
\* community_remaster is installed
DllStates(m) == IF m.name = "community_remaster" THEN BOOLEAN ELSE {TRUE}

\* show_install_progress, reached from the settings screen or, for a mod without
\* optional content, from agree_to_install: the screen is switched to "installing"
\* and the selection is read from the option cards; wizard.log lists the steps
\* of the run that changed files, in the order they were made
BeginInstall ==
    /\ \/ wizard.pc = "settings"
       \/ wizard.pc = "welcome" /\ mod.optional_content = <<>>
    /\ \E dll_exists \in DllStates(mod) :
          wizard' = [wizard EXCEPT !.pc = "copy",
                                   !.install_settings = read_install_settings(mod, wizard.options),
                                   !.disk_pre = manifest_disk,
                                   !.close_disabled = TRUE,
                                   !.dll_exists = dll_exists,
                                   !.log = <<>>]
    /\ history' = [history EXCEPT !.runs = @ + 1]
    /\ UNCHANGED <<mod, installed_content, installed_descriptions, manifest_disk,
                   game_installment, patcher_version, verdict, call,
                   content_in_processing,
                   session, context, distribution, app>>

\* the except branch: show_install_results(False, ...)
Fails(kind) == [wizard EXCEPT !.pc = "results", !.failure = kind, !.status_ok = FALSE]

\* "if is_comrem_or_patch: rename_effects_bps(game_root)", then install_async
copy_never(m) == <<>>
copy_steps(m) ==
    (IF is_comrem_or_patch(m) THEN <<"rename_effects_bps">> ELSE <<>>) \o <<"install">>

\* rename_effects_bps, install_async (taken to do what Mod.install does), and the
\* entry put in content_in_processing
CopyFiles ==
    /\ wizard.pc = "copy"
    /\ \/ /\ is_comrem_or_patch(mod)
          /\ wizard' = Fails("rename_error")
          /\ UNCHANGED <<content_in_processing, history>>
       \/ \E copy_ok \in BOOLEAN :
             LET r == install(mod, wizard.install_settings, installed_content,
                              installed_descriptions, copy_ok)
                 status_ok == r.status
             IN /\ wizard' = [wizard EXCEPT
                                 !.pc = "config", !.copied = TRUE,
                                 !.log = @ \o copy_steps(mod),
                                 !.copy_ok = copy_ok, !.mod_files = r.mod_files,
                                 !.status_ok = status_ok,
                                 !.failure = IF status_ok THEN "none" ELSE "copy_status"]
                /\ content_in_processing' =
                      Merge(content_in_processing,
                            [n \in {mod.name} |->
                                ProcessedEntry(mod, wizard.install_settings)])
                /\ history' = IF status_ok
                              THEN [history EXCEPT !.ok_mods = @ \cup {mod.name}]
                              ELSE [history EXCEPT !.failed_mods = @ \cup {mod.name}]
    /\ UNCHANGED <<mod, installed_content, installed_descriptions, manifest_disk,
                   game_installment, patcher_version, verdict, call,
                   session, context, distribution, app>>

\* game.change_config_values
EditConfig ==
    /\ wizard.pc = "config"
    /\ \/ wizard' = [wizard EXCEPT
                        !.pc = "patch",
                        !.log = @ \o (IF mod.config_options
                                      THEN <<"change_config_values">> ELSE <<>>)]
       \/ mod.config_options /\ wizard' = Fails("config_edit")
    /\ UNCHANGED <<mod, installed_content, installed_descriptions, manifest_disk,
                   game_installment, patcher_version, verdict, call,
                   content_in_processing, history,
                   session, context, distribution, app>>

\* "if is_comrem: ... if os.path.exists(target_dll): ... else: raise
\* DXRenderDllNotFoundError"
dll_found_always(m, dll_exists) == FALSE
dll_not_found(m, dll_exists) == m.name = "community_remaster" /\ ~dll_exists

\* the patches of the executable and of the DLL in the order the handler makes
\* them, up to the DXRenderDllNotFoundError it raises; correct_damage_coeffs,
\* called right after patch_configurables, is taken as a part of it
binary_patches(m, dll_exists) ==
    (IF ~is_comrem_or_patch(m) /\ ~m.vanilla_mod
     THEN <<"patch_configurables">> ELSE <<>>)
    \o (IF is_comrem_or_patch(m)
        THEN IF dll_not_found(m, dll_exists)
             THEN <<>>
             ELSE (IF m.name = "community_remaster"
                   THEN <<"patch_render_dll">> ELSE <<>>) \o <<"patch_game_exe">>
        ELSE IF m.vanilla_mod THEN <<"patch_memory">> ELSE <<>>)

\* patch_configurables / patch_render_dll and patch_game_exe / patch_memory: all
\* of them made, or one of them raising after those before it were made, or the
\* DLL not found
PatchBinaries ==
    /\ wizard.pc = "patch"
    /\ LET patches == binary_patches(mod, wizard.dll_exists)
       IN \/ /\ ~dll_not_found(mod, wizard.dll_exists)
             /\ wizard' = [wizard EXCEPT !.pc = "commit", !.patched = TRUE,
                                         !.log = @ \o patches]
          \/ /\ ~dll_not_found(mod, wizard.dll_exists)
             /\ \E n \in 0..(Len(patches) - 1) :
                   wizard' = [Fails("patch_error") EXCEPT
                                 !.log = @ \o SubSeq(patches, 1, n)]
          \/ /\ dll_not_found(mod, wizard.dll_exists)
             /\ wizard' = [Fails("dll_missing") EXCEPT !.log = @ \o patches]
    /\ UNCHANGED <<mod, installed_content, installed_descriptions, manifest_disk,
                   game_installment, patcher_version, verdict, call,
                   content_in_processing, history,
                   session, context, distribution, app>>

\* GameCopy.process_game_install reads the game root again and changes no file
process_game_install(log) == log

\* "if is_comrem_or_patch or mod.vanilla_mod: process_game_install(...)", which may raise
FinishRun(log) ==
    \/ wizard' = [wizard EXCEPT !.pc = "results", !.log = process_game_install(log)]
    \/ /\ is_comrem_or_patch(mod) \/ mod.vanilla_mod
       /\ wizard' = [Fails("process_game_install") EXCEPT !.log = process_game_install(log)]

\* the merge into game.installed_content, load_installed_descriptions (taken to
\* describe every installed mod), the dump of the manifest (written, or refused
\* with an error logged) and process_game_install; an exception inside the inner
\* try is logged and the handler returns without showing the results
CommitManifest ==
    /\ wizard.pc = "commit"
    /\ \/ /\ ~should_dump(wizard.status_ok)
          /\ UNCHANGED <<installed_content, installed_descriptions, manifest_disk>>
          /\ FinishRun(wizard.log)
       \/ /\ should_dump(wizard.status_ok)
          /\ installed_content' = Merge(installed_content, content_in_processing)
          /\ installed_descriptions' = DescriptionsOf(DOMAIN installed_content')
          /\ \/ /\ manifest_disk' = installed_content'
                /\ FinishRun(wizard.log \o <<"dump_yaml">>)
             \/ /\ UNCHANGED manifest_disk
                /\ FinishRun(wizard.log)
       \/ /\ should_dump(wizard.status_ok)
          /\ installed_content' = Merge(installed_content, content_in_processing)
          /\ UNCHANGED <<installed_descriptions, manifest_disk>>
          /\ wizard' = [wizard EXCEPT !.pc = "aborted", !.failure = "manifest_error"]
    /\ UNCHANGED <<mod, game_installment, patcher_version, verdict, call,
                   content_in_processing, history,
                   session, context, distribution, app>>

\* show_install_results, then the wizard is closed; "install_info =
\* self.app.session.content_in_processing[mod_name]" raises KeyError when the
\* run failed before the entry of the mod was put there, and nothing of the
\* results screen is then shown
ShowInstallResults ==
    /\ wizard.pc = "results"
    /\ IF mod.name \in DOMAIN content_in_processing
       THEN /\ wizard' = [wizard EXCEPT !.pc = "idle", !.close_disabled = FALSE]
            /\ app' = [app EXCEPT !.overlay = FALSE]
       ELSE /\ wizard' = [wizard EXCEPT !.pc = "aborted"]
            /\ UNCHANGED app
    /\ UNCHANGED <<mod, installed_content, installed_descriptions, manifest_disk,
                   game_installment, patcher_version, verdict, call,
                   content_in_processing, history,
                   session, context, distribution>>

Next ==
    \/ LocalModsMounted
    \/ InstallMod
    \/ CloseWizard
    \/ ShowSettingsScreen
    \/ CheckboxAction
    \/ SetToDefault
    \/ BeginInstall
    \/ CopyFiles
    \/ EditConfig
    \/ PatchBinaries
    \/ CommitManifest
    \/ ShowInstallResults

Spec == Init /\ [][Next]_vars

\* the steps of show_install_progress are one coroutine: once it has started it
\* runs until it returns
SpecLive ==
    /\ Init /\ [][Next]_vars
    /\ WF_vars(CopyFiles) /\ WF_vars(EditConfig) /\ WF_vars(PatchBinaries)
    /\ WF_vars(CommitManifest) /\ WF_vars(ShowInstallResults)

-----------------------------------------------------------------------------
(* The settings screen of the wizard, over mods with optional content and   *)
(* what a previous install recorded for each option                          *)

\* the flat option hd and the option ost with two settings, with every default
SettingsOptionLists ==
    {<<[HdOption EXCEPT !.default_option = d1], [OstOption EXCEPT !.default_option = d2]>> :
        d1 \in {None, "skip"}, d2 \in {None, "skip", "low"}}

\* what the previous install recorded per option; None: the key is not there
PreviousValues == [hd : {"yes", "skip", None}, ost : {"low", "high", "skip", None}]

\* the options dict of the installed entry
PreviousOptions(prev) ==
    [o \in {n \in {"hd", "ost"} : prev[n] # None} |-> prev[o]]

\* nothing installed, or alpha installed with the build 1
PreviousInstalls ==
    {NoContent}
      \cup {[n \in {"alpha"} |->
                Entry("alpha", V_1_0_0, Build_1, "exmachina", PreviousOptions(prev))] :
             prev \in PreviousValues}

InitSettings ==
    /\ \E o \in SettingsOptionLists, b \in {Build_1, Build_7}, safe \in BOOLEAN :
          mod = [ModManifest("alpha", V_1_0_0, b, "exmachina", <<>>, <<>>, o,
                             DefaultRequirement)
                    EXCEPT !.safe_reinstall_options = safe]
    /\ installed_content \in PreviousInstalls
    /\ installed_descriptions = DescriptionsOf(DOMAIN installed_content)
    /\ manifest_disk = installed_content
    /\ game_installment = "exmachina"
    /\ patcher_version = V_2_0
    /\ verdict = NoVerdict
    /\ call = NoCall
    /\ content_in_processing = NoContent
    /\ wizard = [IdleWizard EXCEPT !.pc = "welcome"]
    /\ history = NoHistory
    /\ session = NoSession
    /\ context = NoContext
    /\ distribution = NoDistribution
    /\ app = [IdleApp EXCEPT !.overlay = TRUE, !.probed = TRUE]
    /\ CanInstallNow(mod)

NextSettings ==
    \/ ShowSettingsScreen
    \/ CheckboxAction
    \/ SetToDefault
    \/ BeginInstall

SpecSettings == InitSettings /\ [][NextSettings]_vars

-----------------------------------------------------------------------------
(* Reference notions the claims are stated with *)

\* equality of versions as sections 3 and 4.1 of the specification define it:
\* numeric (major, minor, patch) when both are numeric, string tuples otherwise,
\* and equal identifiers
SpecSameNumbers(a, b) ==
    IF a.is_numeric /\ b.is_numeric
    THEN ~IntTupleLess(a, b) /\ ~IntTupleLess(b, a)
    ELSE <<a.major, a.minor, a.patch>> = <<b.major, b.minor, b.patch>>

SpecVersionEqual(a, b) == SpecSameNumbers(a, b) /\ a.identifier = b.identifier

\* one constraint alone, as check_requirement evaluates it
SingleConstraintHolds(constraint, installed_version) ==
    requirement_versions_loop(<<constraint>>, installed_version, 1,
                              [raised |-> "none", version_validated |-> TRUE,
                               compare_ops |-> {}]).version_validated

\* one constraint alone, as check_incompatible evaluates it
SingleConstraintMatches(constraint, installed_version) ==
    incompatible_versions_loop(<<constraint>>, installed_version, 1,
                               [raised |-> "none", version_incomp |-> FALSE,
                                compare_ops |-> {}]).version_incomp

-----------------------------------------------------------------------------
(* Claims about the resolver *)

RequirementCalled ==
    call.fn = "check_requirement" /\ call.result.raised = "none"

CalledPrereq == mod.prerequisites[call.entry]

IncompatibleCalled == call.fn = "check_incompatible"

CalledIncomp == mod.incompatible[call.entry]

\* C3: for a prerequisite with several version constraints, version_validated is
\* the conjunction of the constraints evaluated one by one against the installed
\* version, whatever their order.
C3_VersionValidatedIsConjunction ==
    (/\ RequirementCalled
     /\ call.result.name_validated
     /\ Len(CalledPrereq.versions) > 0)
    => (call.result.version_validated <=>
          \A i \in 1..Len(CalledPrereq.versions) :
              SingleConstraintHolds(
                  CalledPrereq.versions[i],
                  installed_content[call.result.required_mod_name].version))

\* C4: can_install is true iff the mod is installment-compatible, tool-version
\* compatible, all prerequisites hold, no incompatible is violated and the
\* reinstall is not blocked; a mod of another installment is never installable.
C4_CanInstallIff ==
    verdict.session_loaded
    => (verdict.can_install <=>
          /\ mod.installment = game_installment
          /\ verdict.commod_compatible
          /\ verdict.compatible
          /\ verdict.prevalidated
          /\ verdict.can_be_reinstalled)

AllOptionsInstalled(optional_content, entry) ==
    \A i \in 1..Len(optional_content) :
        OptionValue(entry, optional_content[i]) \notin {None, "skip"}

\* C5: check_requirement reports a prerequisite satisfied iff an alternative is
\* installed, the version constraints hold for the installed version and every
\* required optional content is installed with a value other than "skip".
\* It is stated for the alternative check_requirement settles on, with each
\* constraint evaluated as check_requirement evaluates one, and outside the
\* community_patch-on-remaster rule, which is a claim of its own.
C5_RequirementSatisfiedIff ==
    (RequirementCalled /\ call.result.required_mod_name # "community_patch")
    => (call.result.validated <=>
          LET n == call.result.required_mod_name
          IN /\ \E i \in 1..Len(CalledPrereq.name) :
                    IsInstalled(installed_content, CalledPrereq.name[i])
             /\ \A k \in 1..Len(CalledPrereq.versions) :
                    SingleConstraintHolds(CalledPrereq.versions[k],
                                          installed_content[n].version)
             /\ AllOptionsInstalled(CalledPrereq.optional_content,
                                    installed_content[n]))

\* C6: check_incompatible reports an entry violated iff an alternative is
\* installed, its version matches the declared constraints (or none are
\* declared) and one of the listed optional contents is installed (or none is
\* listed); otherwise the entry is satisfied.
\* It is stated for the alternative check_incompatible settles on, with each
\* constraint evaluated as check_incompatible evaluates one, for the calls that
\* return.
C6_IncompatibleViolatedIff ==
    (IncompatibleCalled /\ call.result.raised = "none")
    => (call.result.incompatible_with_game_copy <=>
          LET n == call.result.incomp_mod_name
          IN /\ \E i \in 1..Len(CalledIncomp.name) :
                    IsInstalled(installed_content, CalledIncomp.name[i])
             /\ \A k \in 1..Len(CalledIncomp.versions) :
                    SingleConstraintMatches(CalledIncomp.versions[k],
                                            installed_content[n].version)
             /\ \/ Len(CalledIncomp.optional_content) = 0
                \/ AnyOptionInstalled(CalledIncomp.optional_content,
                                      installed_content[n]))

HasPlainIncompatibleInstalled ==
    \E i \in 1..Len(mod.incompatible) :
        /\ Len(mod.incompatible[i].versions) = 0
        /\ Len(mod.incompatible[i].optional_content) = 0
        /\ \E j \in 1..Len(mod.incompatible[i].name) :
               IsInstalled(installed_content, mod.incompatible[i].name[j])

\* C7: with an incompatible entry without versions whose mod is installed,
\* resolution completes without raising and yields can_install = false with a
\* found-incompatible reason, also when the installed mod has no description.
C7_IncompatiblePresentResolves ==
    (verdict.session_attempted /\ HasPlainIncompatibleInstalled)
    => /\ verdict.raised = "none"
       /\ verdict.session_loaded
       /\ ~verdict.can_install
       /\ \E k \in 1..Len(verdict.prevalidated_err) :
              verdict.prevalidated_err[k].key = "found_incompatible"

\* C8: versions that differ only in the pre-release identifier are unequal, and
\* the constraint "=1.0.0" is not satisfied by the installed version 1.0.0-rc1.
C8_IdentifierDistinguishes ==
    (/\ RequirementCalled
     /\ call.result.name_validated
     /\ CalledPrereq.versions = << <<"=">> \o V_1_0_0 >>
     /\ installed_content[call.result.required_mod_name].version = V_1_0_0_rc1)
    => /\ ~call.result.version_validated
       /\ ~Version_eq(Version(V_1_0_0_rc1), Version(V_1_0_0))

ReinstallCalled == call.fn = "check_reinstallability"

\* the mod is installed and nothing else is
AloneInstalled == DOMAIN installed_content = {mod.name}

SameVersionsBySpec ==
    SpecVersionEqual(Version(installed_content[mod.name].version), Version(mod.version))

\* C9: reinstall with no other mods present: other version -> blocked; same
\* version and same build -> safe reinstall; newer manifest build -> allowed with
\* the unsafe warning; older manifest build -> blocked.
C9_ReinstallVerdicts ==
    (ReinstallCalled /\ AloneInstalled)
    => LET r == call.result
           installed == installed_content[mod.name]
       IN /\ r.is_reinstall
          /\ ~SameVersionsBySpec
               => ~r.can_be_reinstalled
                  /\ r.reinstall_warning = "cant_reinstall_over_other_version"
          /\ (SameVersionsBySpec /\ mod.build = installed.build)
               => r.can_be_reinstalled
                  /\ r.reinstall_warning \in {"safe_reinstall", "complex_safe_reinstall"}
          /\ (SameVersionsBySpec /\ StrGreater(mod.build, installed.build))
               => r.can_be_reinstalled
                  /\ r.reinstall_warning \in {"unsafe_reinstall",
                                              "complex_unsafe_reinstall"}
          /\ (SameVersionsBySpec /\ StrLess(mod.build, installed.build))
               => ~r.can_be_reinstalled
                  /\ r.reinstall_warning = "cant_reinstall_over_newer_build"

\* installed build "10", manifest build "7", equal versions, nothing else installed
NewerBuildScenario ==
    /\ ReinstallCalled
    /\ AloneInstalled
    /\ Version_eq(Version(installed_content[mod.name].version), Version(mod.version))
    /\ installed_content[mod.name].build = Build_10
    /\ mod.build = Build_7

\* C10 as stated: installed build "10" and manifest build "7" with equal versions
\* give is_reinstall = true, can_be_reinstalled = false, cant_reinstall_over_newer_build.
C10_NewerBuildBlocks ==
    NewerBuildScenario
    => /\ call.result.is_reinstall
       /\ ~call.result.can_be_reinstalled
       /\ call.result.reinstall_warning = "cant_reinstall_over_newer_build"

\* C10 amended: builds are compared as strings, "7" > "10", so the reinstall is
\* allowed with the unsafe-reinstall warning (its complex form when the mod has
\* optional content).
C10_StringOrderAllowsReinstall ==
    NewerBuildScenario
    => /\ call.result.is_reinstall
       /\ call.result.can_be_reinstalled
       /\ call.result.reinstall_warning =
             (IF Len(mod.optional_content) > 0
              THEN "complex_unsafe_reinstall" ELSE "unsafe_reinstall")

C10_Witness ==
    /\ NewerBuildScenario
    /\ call.result.reinstall_warning = "unsafe_reinstall"

\* a previous install exists: the mod itself, or community_patch under community_remaster
PreviousInstallPresent ==
    \/ IsInstalled(installed_content, mod.name)
    \/ mod.name = "community_remaster" /\ IsInstalled(installed_content, "community_patch")

\* the installed mods that are neither the mod nor named in one of its prerequisites
OtherInstalledMods ==
    {n \in DOMAIN installed_content :
        /\ n # mod.name
        /\ \A i \in 1..Len(mod.prerequisites) :
               \A j \in 1..Len(mod.prerequisites[i].name) : mod.prerequisites[i].name[j] # n}

\* C11: the reinstall verdict is computed only when the mod (or community_patch,
\* for community_remaster) is installed; then any installed mod that is neither
\* the mod nor named in its prerequisites blocks the reinstall and the warning
\* lists exactly those mods; a mod that is not installed is not a reinstall and
\* can be installed.
C11_ReinstallOverOtherMods ==
    ReinstallCalled
    => /\ call.result.is_reinstall <=> PreviousInstallPresent
       /\ ~PreviousInstallPresent
            => /\ call.result.can_be_reinstalled
               /\ call.result.reinstall_warning = ""
       /\ (PreviousInstallPresent /\ OtherInstalledMods # {})
            => /\ ~call.result.can_be_reinstalled
               /\ call.result.reinstall_warning = "cant_reinstall_over_other_mods"
               /\ call.result.other_mods = OtherInstalledMods

C11_Witness ==
    /\ ReinstallCalled
    /\ IsInstalled(installed_content, "beta")
    /\ call.result.reinstall_warning = "cant_reinstall_over_other_mods"
    /\ call.result.other_mods = {"gamma"}

-----------------------------------------------------------------------------
(* Functions of src/mod.py called on their arguments: Mod.Version on version *)
(* strings (parsed and printed, compared, used as the bound of a            *)
(* prerequisite constraint), Mod.validate_install_config on manifests,      *)
(* Mod.load_translations on a mod and its translation manifests             *)

\* the components a version string is made of: one of 4 characters, one of 5,
\* one of 11, a letter
VersionTokens ==
    {<<"0">>, <<"1">>, <<"1", "0">>, <<"a">>, <<"1", "2", "3", "4">>,
     <<"1", "2", "3", "4", "5">>,
     <<"1", "2", "3", "4", "5", "6", "7", "8", "9", "0", "1">>}

VersionIdentifiers == {<<>>, <<"r", "c", "1">>, <<"r", "c", ".", "1">>, <<"r", "c", "-", "1">>}

\* the dot-separated component lists MAJOR, MAJOR.MINOR, MAJOR.MINOR.PATCH
VersionParts == SeqsUpTo(VersionTokens, 3) \ {<<>>}

\* parts joined with "."
RECURSIVE DotJoin(_)
DotJoin(parts) ==
    IF Len(parts) = 1 THEN parts[1]
    ELSE parts[1] \o <<".">> \o DotJoin(Tail(parts))

\* MAJOR[.MINOR[.PATCH]][-IDENTIFIER]
VersionString(parts, identifier) ==
    DotJoin(parts) \o (IF identifier # <<>> THEN <<"-">> \o identifier ELSE <<>>)

\* the versions compared with one another
ComparedVersions ==
    {V_1_0_0, V_1_0_0_rc1, V_1_2_3, V_1_2_3_beta, V_2_3_1, V_2_0, V_0_5, V_1_a, V_1_10,
     <<"a">>, <<"1", ".", "b">>, <<"1", "0", ".", "0">>}

InitCalls ==
    /\ mod = ModManifest("alpha", V_1_0_0, Build_1, "exmachina", <<>>, <<>>, <<>>, DefaultRequirement)
    /\ installed_content = NoContent
    /\ installed_descriptions = DescriptionsOf({})
    /\ manifest_disk = NoContent
    /\ game_installment = "exmachina"
    /\ patcher_version = V_2_0
    /\ verdict = NoVerdict
    /\ call = NoCall
    /\ content_in_processing = NoContent
    /\ wizard = IdleWizard
    /\ history = NoHistory
    /\ AppAtRest

\* str(Mod.Version(version_str))
CallVersion ==
    /\ call = NoCall
    /\ \E parts \in VersionParts, identifier \in VersionIdentifiers :
          call' = [fn |-> "Version", parts |-> parts, identifier |-> identifier,
                   result |-> Version(VersionString(parts, identifier)),
                   str |-> Version_str(Version(VersionString(parts, identifier)))]
    /\ UNCHANGED <<mod, installed_content, installed_descriptions, manifest_disk,
                   game_installment, patcher_version, verdict,
                   content_in_processing, wizard, history,
                   session, context, distribution, app>>

\* Mod.Version(a) == Mod.Version(b) and Mod.Version(a) < Mod.Version(b)
CallCompare ==
    /\ call = NoCall
    /\ \E a \in ComparedVersions, b \in ComparedVersions :
          call' = [fn |-> "compare", a |-> Version(a), b |-> Version(b),
                   eq |-> Version_eq(Version(a), Version(b)),
                   lt_raises |-> Version_lt_raises(Version(a), Version(b)),
                   lt |-> Version_lt(Version(a), Version(b))]
    /\ UNCHANGED <<mod, installed_content, installed_descriptions, manifest_disk,
                   game_installment, patcher_version, verdict,
                   content_in_processing, wizard, history,
                   session, context, distribution, app>>

\* Mod.check_requirement of a prerequisite beta with the one constraint given,
\* beta being installed in the version given
constraint_on(self, constraint, version) ==
    check_requirement(self, DependencyEntry(<<"beta">>, <<constraint>>, <<>>),
                      [n \in {"beta"} |-> Entry("beta", version, Build_1, "exmachina", NoOptions)],
                      DescriptionsOf({"beta"}), FALSE)

\* the prerequisite ">=v1" checked against beta v1 and against beta v2
CallConstraint ==
    /\ call = NoCall
    /\ \E v1 \in ComparedVersions, v2 \in ComparedVersions :
          call' = [fn |-> "constraint", v1 |-> v1, v2 |-> v2,
                   lt_raises |-> Version_lt_raises(Version(v1), Version(v2)),
                   lt |-> Version_lt(Version(v1), Version(v2)),
                   on_v1 |-> constraint_on(mod, <<">", "=">> \o v1, v1),
                   on_v2 |-> constraint_on(mod, <<">", "=">> \o v1, v2)]
    /\ UNCHANGED <<mod, installed_content, installed_descriptions, manifest_disk,
                   game_installment, patcher_version, verdict,
                   content_in_processing, wizard, history,
                   session, context, distribution, app>>

\* the prerequisite and incompatible entries of a manifest under validation
ConfigEntries ==
    [name : {<<"beta">>, <<"community_patch">>, <<"beta", "community_patch">>},
     optional_content : {<<>>, <<"hd">>}, schema_ok : BOOLEAN]

\* patcher options: none, and a dict of the fields that have a value
NoPatcherOptions == [present |-> FALSE, fields |-> <<>>]

Num(type, num) == [type |-> type, num |-> num]

Absent == Num("absent", 0)

\* gravity -100.1, -100.0, -50.5, -1.0, -0.9, the int -5, a str
GravityValues ==
    {Absent, Num("float", -1001), Num("float", -1000), Num("float", -505),
     Num("float", -10), Num("float", -9), Num("int", -50), Num("str", 0)}

\* skins_in_shop 7, 8, 32, 33, True, the float 16.0
SkinsValues ==
    {Absent, Num("int", 70), Num("int", 80), Num("int", 320), Num("int", 330),
     Num("bool", 10), Num("float", 160)}

PatcherOptionsOf(f) ==
    [present |-> TRUE, fields |-> [k \in {x \in DOMAIN f : f[x] # Absent} |-> f[k]]]

PatcherOptions ==
    {PatcherOptionsOf(f) :
        f \in {g \in [{"gravity", "skins_in_shop", "blast_damage_friendly_fire", "game_font"}
                         -> GravityValues \cup SkinsValues] :
                  /\ g["gravity"] \in GravityValues
                  /\ g["skins_in_shop"] \in SkinsValues
                  /\ g["blast_damage_friendly_fire"] \in {Absent, Num("bool", 10), Num("int", 80)}
                  /\ g["game_font"] \in {Absent, Num("str", 0), Num("int", 80)}}}

\* its optional content
ConfigOptions ==
    [name : {"hd", "base", "display_name", "build", "version"},
     install_settings : {<<>>, <<"low">>, <<"low", "high">>}, schema_ok : {TRUE},
     patcher_options : {NoPatcherOptions}]
      \cup {[name |-> "hd", install_settings |-> <<>>, schema_ok |-> FALSE,
             patcher_options |-> NoPatcherOptions]}

\* no_base_content of a manifest: none, True, False, "true", "True", "false"
NoBaseContentValue(type, text) == [type |-> type, text |-> text]

NoBaseContentValues ==
    {NoBaseContentValue("NoneType", <<>>),
     NoBaseContentValue("bool", <<"T", "r", "u", "e">>),
     NoBaseContentValue("bool", <<"F", "a", "l", "s", "e">>),
     NoBaseContentValue("str", <<"t", "r", "u", "e">>),
     NoBaseContentValue("str", <<"T", "r", "u", "e">>),
     NoBaseContentValue("str", <<"f", "a", "l", "s", "e">>)}

\* every directory validate_install_config looks for
AllDirs(name, optional_content) ==
    {<<mod_identifier(name), "data">>}
    \cup {<<mod_identifier(name), optional_content[i].name>> : i \in 1..Len(optional_content)}
    \cup UNION {{<<mod_identifier(name), optional_content[i].name,
                   optional_content[i].install_settings[k]>> :
                     k \in 1..Len(optional_content[i].install_settings)} :
                  i \in 1..Len(optional_content)}

InstallConfig(schema_ok, name, prerequisites, incompatible, optional_content, patcher_options, no_base_content, dirs) ==
    [is_dict |-> TRUE, schema_ok |-> schema_ok, name |-> name,
     prerequisites |-> prerequisites, incompatible |-> incompatible,
     optional_content |-> optional_content, patcher_options |-> patcher_options,
     no_base_content |-> no_base_content, dirs |-> dirs]

\* the options of the manifests whose directories vary
DirOptions ==
    {<<>>,
     <<[name |-> "hd", install_settings |-> <<>>, schema_ok |-> TRUE,
        patcher_options |-> NoPatcherOptions]>>,
     <<[name |-> "ost", install_settings |-> <<"low", "high">>, schema_ok |-> TRUE,
        patcher_options |-> NoPatcherOptions]>>}

\* the manifests of a mod with every set of directories beneath its folder
DirConfigs(name, optional_content) ==
    {InstallConfig(TRUE, name, <<>>, <<>>, optional_content, NoPatcherOptions,
                   no_base_content, dirs) :
        no_base_content \in NoBaseContentValues,
        dirs \in SUBSET (AllDirs(name, optional_content) \cup {<<name, "data">>})}

\* the manifests: one that is no dict; the ones with prerequisites and at most one
\* incompatible entry; the ones with optional content; the ones with patcher
\* options, of the mod or of its one option; the ones with every set of directories
InstallConfigs ==
    {[InstallConfig(FALSE, "alpha", <<>>, <<>>, <<>>, NoPatcherOptions,
                    NoBaseContentValue("NoneType", <<>>), {}) EXCEPT !.is_dict = FALSE]}
    \cup {InstallConfig(schema_ok, "alpha", prerequisites, incompatible, <<>>,
                        NoPatcherOptions, NoBaseContentValue("NoneType", <<>>),
                        IF dirs_ok THEN AllDirs("alpha", <<>>) ELSE {}) :
             schema_ok \in BOOLEAN, dirs_ok \in BOOLEAN,
             prerequisites \in SeqsUpTo(ConfigEntries, MaxEntries),
             incompatible \in SeqsUpTo({e \in ConfigEntries : e.optional_content = <<>>}, 1)}
    \cup {InstallConfig(schema_ok, "alpha", <<>>, <<>>, optional_content,
                        NoPatcherOptions, NoBaseContentValue("NoneType", <<>>),
                        IF dirs_ok THEN AllDirs("alpha", optional_content) ELSE {}) :
             schema_ok \in BOOLEAN, dirs_ok \in BOOLEAN,
             optional_content \in SeqsUpTo(ConfigOptions, MaxEntries)}
    \cup {InstallConfig(TRUE, "alpha",  <<>>, <<>>,
                        IF of_option
                        THEN <<[name |-> "hd", install_settings |-> <<>>, schema_ok |-> TRUE,
                                patcher_options |-> patcher_options]>>
                        ELSE <<>>,
                        IF of_option THEN NoPatcherOptions ELSE patcher_options,
                        NoBaseContentValue("NoneType", <<>>),
                        AllDirs("alpha", <<>>) \cup {<<"alpha", "hd">>}) :
             patcher_options \in PatcherOptions, of_option \in BOOLEAN}
    \cup UNION {DirConfigs(name, optional_content) :
                  name \in {"alpha", "community_remaster"}, optional_content \in DirOptions}

\* Mod.validate_install_config(install_config, mod_config_path, skip_data_validation)
CallValidateInstallConfig ==
    /\ call = NoCall
    /\ \E install_config \in InstallConfigs, skip_data_validation \in BOOLEAN :
          call' = [fn |-> "validate_install_config", install_config |-> install_config,
                   skip_data_validation |-> skip_data_validation,
                   result |-> validate_install_config(install_config, skip_data_validation)]
    /\ UNCHANGED <<mod, installed_content, installed_descriptions, manifest_disk,
                   game_installment, patcher_version, verdict,
                   content_in_processing, wizard, history,
                   session, context, distribution, app>>

\* the constraints of a patcher_version_requirement: every prefix, none included
ToolConstraints ==
    {sign \o v : sign \in {<<>>, <<">", "=">>, <<"<", "=">>, <<">">>, <<"<">>, <<"=">>},
                 v \in {V_1_10, V_2_0, V_1_0_0_rc1, V_1_a}}

\* the versions of the mod manager
ToolVersions == {V_1_10, V_2_0, V_1_0_0, V_1_0_0_rc1, V_1_2_3_beta}

\* Mod.compatible_with_mod_manager(patcher_version)
CallCompatibleWithModManager ==
    /\ call = NoCall
    /\ \E requirement \in SeqsUpTo(ToolConstraints, MaxConstraints), tool \in ToolVersions :
          call' = [fn |-> "compatible_with_mod_manager", requirement |-> requirement,
                   tool |-> tool,
                   result |-> compatible_with_mod_manager(
                                  [mod EXCEPT !.patcher_version_requirement = requirement],
                                  tool)]
    /\ UNCHANGED <<mod, installed_content, installed_descriptions, manifest_disk,
                   game_installment, patcher_version, verdict,
                   content_in_processing, wizard, history,
                   session, context, distribution, app>>

\* the mod whose translations are loaded
ParentMod == [name |-> "alpha", version |-> V_1_0_0, tags |-> {"GAMEPLAY"}, language |-> "eng"]

\* the languages a manifest declares translations for, the one of the mod included
DeclaredTranslations ==
    {t \in SeqsUpTo({"ru", "de", "eng"}, MaxTranslations) :
        \A i, j \in 1..Len(t) : i # j => t[i] # t[j]}

\* what manifest_<lang>.yaml can be: missing, or a manifest that passes validation
\* or not, with its name, version, tags and language
TranslationFiles(lang) ==
    {[exists |-> FALSE, config_validated |-> FALSE, mod_tr |-> ParentMod]}
    \cup [exists : {TRUE}, config_validated : BOOLEAN,
          mod_tr : [name : {"alpha", "other"}, version : {V_1_0_0, V_2_0},
                    tags : {{"GAMEPLAY"}, {"VISUAL"}},
                    language : {lang, IF lang = "eng" THEN "ru" ELSE "eng"}]]

\* Mod.load_translations
CallLoadTranslations ==
    /\ call = NoCall
    /\ \E translations \in DeclaredTranslations :
          \E files \in [{translations[i] : i \in 1..Len(translations)} ->
                           UNION {TranslationFiles(l) : l \in {"ru", "de", "eng"}}] :
             /\ \A l \in DOMAIN files : files[l] \in TranslationFiles(l)
             /\ call' = [fn |-> "load_translations", translations |-> translations,
                         files |-> files,
                         result |-> load_translations(ParentMod, translations, files)]
    /\ UNCHANGED <<mod, installed_content, installed_descriptions, manifest_disk,
                   game_installment, patcher_version, verdict,
                   content_in_processing, wizard, history,
                   session, context, distribution, app>>

\* [field, types, required] of a scheme
SchemeField(field, types, required) ==
    [field |-> field, types |-> types, required |-> required]

\* schema_prereqs, and the fields version and tags of schema_fieds_top
Schemes ==
    {<<SchemeField("name", <<PlainType("str"), GenericType("list", {"str"})>>, TRUE),
       SchemeField("versions", <<GenericType("list", {"str", "int", "float"})>>, FALSE),
       SchemeField("optional_content", <<GenericType("list", {"str"})>>, FALSE)>>,
     <<SchemeField("version", <<PlainType("str"), PlainType("int"), PlainType("float")>>, TRUE),
       SchemeField("tags", <<GenericType("list", {"str"})>>, FALSE)>>}

PyValue(type, items) == [type |-> type, items |-> items]

\* values of a field: scalars, lists of strings, of numbers, of both, a dict
FieldValues ==
    {PyNone, PyValue("str", <<>>), PyValue("int", <<>>), PyValue("bool", <<>>),
     PyValue("float", <<>>), PyValue("list", <<>>), PyValue("list", <<"str">>),
     PyValue("list", <<"int">>), PyValue("list", <<"str", "dict">>),
     PyValue("dict", <<"str">>)}

SchemeFields(scheme) == {scheme[i].field : i \in 1..Len(scheme)}

\* the dicts validated: the fields of the scheme, with or without a field the
\* scheme does not name; and a value that is not a dict
ValidatedDicts(scheme) ==
    {[type |-> "dict", fields |-> f] :
        f \in UNION {[SchemeFields(scheme) \cup extra -> FieldValues] :
                        extra \in {{}, {"unknown_field"}}}}
    \cup {[type |-> "list", fields |-> <<>>]}

\* Mod.validate_dict
CallValidateDict ==
    /\ call = NoCall
    /\ \E scheme \in Schemes :
          \E validating_dict \in ValidatedDicts(scheme) :
             call' = [fn |-> "validate_dict", scheme |-> scheme,
                      validating_dict |-> validating_dict,
                      result |-> validate_dict(validating_dict, scheme)]
    /\ UNCHANGED <<mod, installed_content, installed_descriptions, manifest_disk,
                   game_installment, patcher_version, verdict,
                   content_in_processing, wizard, history,
                   session, context, distribution, app>>

\* the mods archived: with or without base content, with data_dirs given or not,
\* with no optional content, a flat option or an option with two settings
ArchivedMods ==
    [no_base_content : BOOLEAN, data_dirs : {{}, {"data"}}, bin_dirs : {{}},
     optional_content : DirOptions]

ArchiveFile(filename, emptystream) == [filename |-> filename, emptystream |-> emptystream]

\* the files of an archive of the mod alpha
ArchiveFiles ==
    {ArchiveFile(<<"alpha", "manifest.yaml">>, FALSE), ArchiveFile(<<"alpha", "data">>, TRUE),
     ArchiveFile(<<"alpha", "hd">>, TRUE), ArchiveFile(<<"alpha", "hd", "data">>, TRUE),
     ArchiveFile(<<"alpha", "ost">>, TRUE), ArchiveFile(<<"alpha", "ost", "low", "data">>, TRUE),
     ArchiveFile(<<"alpha", "ost", "high", "data">>, TRUE)}

\* validate_archive_mod_paths on a zip listing or a 7z listing
CallValidateArchiveModPaths ==
    /\ call = NoCall
    /\ \E archive_mod \in ArchivedMods, archive_kind \in {"zip", "7z"},
          archive_file_list \in SUBSET ArchiveFiles :
          call' = [fn |-> "validate_archive_mod_paths", archive_mod |-> archive_mod,
                   archive_kind |-> archive_kind, archive_file_list |-> archive_file_list,
                   result |-> validate_archive_mod_paths(archive_mod, <<"alpha">>,
                                                         archive_kind, archive_file_list)]
    /\ UNCHANGED <<mod, installed_content, installed_descriptions, manifest_disk,
                   game_installment, patcher_version, verdict,
                   content_in_processing, wizard, history,
                   session, context, distribution, app>>

\* Mod.check_requirements(existing_content, existing_content_descriptions,
\* patcher_version) of a mod without prerequisites
CallCheckRequirements ==
    /\ call = NoCall
    /\ \E requirement \in SeqsUpTo(ToolConstraints, MaxConstraints), tool \in ToolVersions :
          call' = [fn |-> "check_requirements", requirement |-> requirement, tool |-> tool,
                   compatible |-> compatible_with_mod_manager(
                                      [mod EXCEPT !.patcher_version_requirement = requirement],
                                      tool),
                   result |-> check_requirements_for(
                                  [mod EXCEPT !.patcher_version_requirement = requirement],
                                  installed_content, installed_descriptions, tool)]
    /\ UNCHANGED <<mod, installed_content, installed_descriptions, manifest_disk,
                   game_installment, patcher_version, verdict,
                   content_in_processing, wizard, history,
                   session, context, distribution, app>>

NextCalls ==
    \/ CallValidateDict
    \/ CallCheckRequirements
    \/ CallValidateArchiveModPaths
    \/ CallVersion
    \/ CallCompare
    \/ CallConstraint
    \/ CallValidateInstallConfig
    \/ CallCompatibleWithModManager
    \/ CallLoadTranslations

SpecCalls == InitCalls /\ [][NextCalls]_vars

-----------------------------------------------------------------------------
(* Claims about Mod.Version                                                 *)

CompareCalled == call.fn = "compare"

\* the (major, minor, patch) string tuple; the versions compared are in lower case
StringTuple(v) == <<v.major, v.minor, v.patch>>

\* lexicographic order of two string tuples
TupleLess(a, b) ==
    \/ StrLess(a[1], b[1])
    \/ a[1] = b[1] /\ StrLess(a[2], b[2])
    \/ a[1] = b[1] /\ a[2] = b[2] /\ StrLess(a[3], b[3])

\* C22: when an operand is not fully numeric, == is equality of the string tuples,
\* < is their lexicographic order, and neither comparison raises.
C22_NonNumericComparison ==
    (CompareCalled /\ ~(call.a.is_numeric /\ call.b.is_numeric))
    => /\ ~call.lt_raises
       /\ call.eq <=> StringTuple(call.a) = StringTuple(call.b)
       /\ call.lt <=> TupleLess(StringTuple(call.a), StringTuple(call.b))

ConstraintCalled == call.fn = "constraint"

\* v1 < v2 under the ordering of versions: by the numbers when both are numeric,
\* by the string tuples otherwise
OrderedPair ==
    /\ ConstraintCalled
    /\ IF Version(call.v1).is_numeric /\ Version(call.v2).is_numeric
       THEN call.lt
       ELSE TupleLess(StringTuple(Version(call.v1)), StringTuple(Version(call.v2)))

Satisfied(r) == r.raised = "none" /\ r.validated

\* C23: for v1 < v2, a constraint ">= v1" that v1 satisfies is satisfied by v2.
C23_ConstraintMonotone ==
    (OrderedPair /\ Satisfied(call.on_v1)) => Satisfied(call.on_v2)

VersionCalled == call.fn = "Version"

\* the components, missing ones as "0"
Filled(parts) == parts \o SubSeq(<<<<"0">>, <<"0">>, <<"0">>>>, Len(parts) + 1, 3)

\* s with its missing components filled in as 0 and its identifier as it is
Normalized(parts, identifier) == VersionString(Filled(parts), identifier)

\* major and minor of at most 4 characters, patch of at most 10
WithinBounds(parts) ==
    /\ Len(Filled(parts)[1]) <= 4
    /\ Len(Filled(parts)[2]) <= 4
    /\ Len(Filled(parts)[3]) <= 10

\* C24 as stated: str(Version(s)) is s with the missing components filled in as 0
\* and the identifier kept, for every s of the form MAJOR[.MINOR[.PATCH]][-IDENTIFIER].
C24_RoundTripAnyLength ==
    VersionCalled => call.str = Normalized(call.parts, call.identifier)

\* C24: the round trip holds for the strings whose major and minor have at most 4
\* characters and whose patch has at most 10.
C24_RoundTrip ==
    (VersionCalled /\ WithinBounds(call.parts))
    => call.str = Normalized(call.parts, call.identifier)

\* a string with a component missing, a component at its bound and an identifier
C24_Witness ==
    /\ VersionCalled
    /\ call.parts = <<<<"1", "2", "3", "4">>, <<"1">>>>
    /\ call.identifier = <<"r", "c", "-", "1">>
    /\ call.str = VersionString(<<<<"1", "2", "3", "4">>, <<"1">>, <<"0">>>>, call.identifier)

-----------------------------------------------------------------------------
(* Claims about Mod.compatible_with_mod_manager                             *)

ManagerCalled == call.fn = "compatible_with_mod_manager"

\* a < b as the specification orders versions
SpecVersionLess(a, b) ==
    IF a.is_numeric /\ b.is_numeric THEN IntTupleLess(a, b)
    ELSE TupleLess(StringTuple(a), StringTuple(b))

\* the relation a constraint of the mod manager names; none means ">="
ToolRelation(constraint) ==
    IF Head(constraint) \in {">", "<", "="} THEN prereq_operation(constraint) ELSE "ge"

\* the constraint holds for the tool version with its identifier removed
ToolConstraintHolds(constraint, tool) ==
    compare_of(ToolRelation(constraint),
               SpecVersionLess([Version(tool) EXCEPT !.identifier = <<>>],
                               Version(strip_signs(constraint))),
               SpecVersionEqual([Version(tool) EXCEPT !.identifier = <<>>],
                                Version(strip_signs(constraint))))

\* C28: compatible_with_mod_manager reports compatible iff every constraint of
\* patcher_version_requirement holds for the tool version with its identifier
\* removed, a constraint without prefix being ">="; as a prerequisite constraint
\* the same text without prefix is "=".
C28_ToolVersionCompatible ==
    ManagerCalled
    => /\ call.result.raised = "none"
       /\ call.result.compatible
            <=> \A i \in 1..Len(call.requirement) :
                   ToolConstraintHolds(call.requirement[i], call.tool)
       /\ \A i \in 1..Len(call.requirement) :
             ~(Head(call.requirement[i]) \in {">", "<", "="})
             => (SingleConstraintHolds(call.requirement[i], call.tool)
                   <=> SingleConstraintHolds(<<"=">> \o call.requirement[i], call.tool))

-----------------------------------------------------------------------------
(* Claims about Mod.load_translations                                       *)

TranslationsCalled == call.fn = "load_translations"

\* the translation declared for lang is missing, or differs from the mod in name,
\* version or tags, or is in the language of the mod
BadTranslation(file) ==
    \/ ~file.exists
    \/ file.mod_tr.name # ParentMod.name
    \/ file.mod_tr.version # ParentMod.version
    \/ file.mod_tr.tags # ParentMod.tags
    \/ file.mod_tr.language = ParentMod.language

\* C26: load_translations raises whenever a declared translation is missing, or
\* differs from the mod in name, version or tags, or has the language of the mod;
\* when it does not raise, every translation loaded has the name, version and
\* tags of the mod and another language.
C26_TranslationsMatchParent ==
    TranslationsCalled
    => /\ (\E l \in DOMAIN call.files : BadTranslation(call.files[l]))
            => call.result.raised # "none"
       /\ call.result.raised = "none"
            => \A l \in DOMAIN call.result.translations_loaded \ {ParentMod.language} :
                  /\ call.result.translations_loaded[l].name = ParentMod.name
                  /\ call.result.translations_loaded[l].version = ParentMod.version
                  /\ call.result.translations_loaded[l].tags = ParentMod.tags
                  /\ call.result.translations_loaded[l].language # ParentMod.language

-----------------------------------------------------------------------------
(* Claims about Mod.validate_install_config                                 *)

ValidateCalled == call.fn = "validate_install_config"

\* a prerequisite that names community_patch and has optional content
ForbiddenPrerequisite(install_config) ==
    \E i \in 1..Len(install_config.prerequisites) :
        /\ InSeq("community_patch", install_config.prerequisites[i].name)
        /\ install_config.prerequisites[i].optional_content # <<>>

\* an incompatible entry that names community_patch
ForbiddenIncompatible(install_config) ==
    \E i \in 1..Len(install_config.incompatible) :
        InSeq("community_patch", install_config.incompatible[i].name)

\* C25: validation fails for a manifest with a prerequisite that names
\* community_patch, alone or among alternatives, and has optional content, and for
\* a manifest with an incompatible entry that names community_patch.
C25_ForbiddenConfigurationsFail ==
    (/\ ValidateCalled
     /\ \/ ForbiddenPrerequisite(call.install_config)
        \/ ForbiddenIncompatible(call.install_config))
    => ~call.result

\* what is left of a sequence of dicts when only their schema is looked at
AllSchemaOk(entries) == \A i \in 1..Len(entries) : entries[i].schema_ok

\* a manifest with nothing wrong but what the predicate says
OtherwiseValid(install_config) ==
    /\ install_config.is_dict /\ install_config.schema_ok
    /\ data_validated(install_config, FALSE)
    /\ patcher_options_validated(install_config.patcher_options)
    /\ AllSchemaOk(install_config.prerequisites)
    /\ AllSchemaOk(install_config.incompatible)
    /\ AllSchemaOk(install_config.optional_content)

\* community_patch among the alternatives of the second prerequisite, with
\* optional content, in a manifest that is otherwise valid
C25_Witness ==
    /\ ValidateCalled /\ ~call.result
    /\ OtherwiseValid(call.install_config)
    /\ Len(call.install_config.prerequisites) = 2
    /\ call.install_config.prerequisites[1].name = <<"beta">>
    /\ call.install_config.prerequisites[2].name = <<"beta", "community_patch">>
    /\ call.install_config.prerequisites[2].optional_content = <<"hd">>
    /\ call.install_config.incompatible = <<>>

\* an optional content with a reserved name
ReservedOption(install_config) ==
    \E i \in 1..Len(install_config.optional_content) :
        install_config.optional_content[i].name \in {"base", "display_name", "build", "version"}

ResolvedAgain == history.runs >= 1 /\ history'.runs = history.runs + 1

\* C21: a second run of load_session_compatibility on the same mod, installed
\* content and descriptions leaves every verdict, every error text and both
\* status lists as the first run left them.
C21_ResolutionIdempotent == [][ResolvedAgain => verdict' = verdict]_vars

\* resolved more than once, with a prerequisite entry reported and an error text
C21_Witness ==
    /\ history.runs >= 2
    /\ verdict.session_loaded
    /\ Len(verdict.individual_require_status) > 0
    /\ Len(verdict.compatible_err) > 0

-----------------------------------------------------------------------------
(* App.load_distro_async: the refresh of the session after the context     *)
(* reloaded the distribution directory                                      *)

\* dict.pop(key, None) and dict[key] = value
Pop(d, key) == [k \in DOMAIN d \ {key} |-> d[k]]

Put(d, key, value) == [k \in DOMAIN d \cup {key} |-> IF k = key THEN value ELSE d[k]]

\* the manifest paths of the distribution directory, in the order the context
\* lists them
ManifestPaths == <<"mods/a/manifest.yaml", "mods/b/manifest.yaml">>

\* the manifest texts a path can hold: the id the mod gets from it, and the rest
ManifestTexts(path) ==
    IF path = ManifestPaths[1]
    THEN [id_str : {"a_1", "a_2"}, body : {"x", "y"}]
    ELSE [id_str : {"b_1"}, body : {"x"}]

\* context.hashed_mod_manifests[path]: a content hash, taken to be free of collisions
manifest_hash(text) == <<"hash", text.id_str, text.body>>

\* the Mod the context makes of a manifest in its reload number n
LoadedMod(text, n) == [id_str |-> text.id_str, text |-> text, loaded |-> n]

\* context.load_mods_async: every manifest found is loaded and hashed; what the
\* context holds for a path that is gone is kept or forgotten
load_mods_async(ctx, dir, n, keep_gone) ==
    [validated_mods |->
        [path \in DOMAIN dir \cup (IF keep_gone THEN DOMAIN ctx.validated_mods ELSE {}) |->
            IF path \in DOMAIN dir THEN LoadedMod(dir[path], n)
            ELSE ctx.validated_mods[path]],
     hashed_mod_manifests |->
        [path \in DOMAIN dir \cup (IF keep_gone THEN DOMAIN ctx.hashed_mod_manifests ELSE {}) |->
            IF path \in DOMAIN dir THEN manifest_hash(dir[path])
            ELSE ctx.hashed_mod_manifests[path]]]

\* session.tracked_mods: the ids that have a tracked hash
tracked_mods(s) == DOMAIN s.tracked_mods_hashes

\* "self.session.tracked_mods_hashes[mod.id_str] == self.context.hashed_mod_manifests[manifest_path]"
hash_unchanged(s, m, hash) == s.tracked_mods_hashes[m.id_str] = hash

\* the mod is put in the session with the hash of its manifest
loaded_to_distro(s, path, m, hash) ==
    [mods |-> Put(s.mods, path, m),
     tracked_mods_hashes |-> Put(s.tracked_mods_hashes, m.id_str, hash)]

\* "was tracked but hash is different, removing from distro"
dropped(s, path, m) ==
    [mods |-> Pop(s.mods, path), tracked_mods_hashes |-> Pop(s.tracked_mods_hashes, m.id_str)]

\* the body of "for manifest_path, mod in self.context.validated_mods.items():"
distro_step(s, ctx, dir, path) ==
    IF path \notin DOMAIN dir
    THEN [s EXCEPT !.mods = Pop(@, path)]
    ELSE IF ctx.validated_mods[path].id_str \in tracked_mods(s)
    THEN IF hash_unchanged(s, ctx.validated_mods[path], ctx.hashed_mod_manifests[path])
         THEN s
         ELSE loaded_to_distro(dropped(s, path, ctx.validated_mods[path]), path,
                               ctx.validated_mods[path], ctx.hashed_mod_manifests[path])
    ELSE loaded_to_distro(s, path, ctx.validated_mods[path], ctx.hashed_mod_manifests[path])

RECURSIVE distro_loop(_, _, _, _)
distro_loop(s, ctx, dir, i) ==
    IF i > Len(ManifestPaths) THEN s
    ELSE distro_loop(IF ManifestPaths[i] \in DOMAIN ctx.validated_mods
                     THEN distro_step(s, ctx, dir, ManifestPaths[i])
                     ELSE s,
                     ctx, dir, i + 1)

\* "removed_mods = set(self.session.mods.keys()) - set(self.context.validated_mods.keys())"
RECURSIVE removed_loop(_, _, _)
removed_loop(s, ctx, i) ==
    IF i > Len(ManifestPaths) THEN s
    ELSE removed_loop(IF ManifestPaths[i] \in DOMAIN s.mods \ DOMAIN ctx.validated_mods
                      THEN dropped(s, ManifestPaths[i], s.mods[ManifestPaths[i]])
                      ELSE s,
                      ctx, i + 1)

\* the session after load_distro_async, the context having reloaded
load_distro(s, ctx, dir) == removed_loop(distro_loop(s, ctx, dir, 1), ctx, 1)

\* ghost: the number of refreshes, the session before the last one, the
\* distribution as the last refresh and the one before it saw it
NoRefresh == [refreshes |-> 0, before |-> NoSession, seen |-> NoDistribution, seen_before |-> NoDistribution]

InitRefresh ==
    /\ mod = AlphaMod
    /\ installed_content = NoContent
    /\ installed_descriptions = DescriptionsOf({})
    /\ manifest_disk = NoContent
    /\ game_installment = "exmachina"
    /\ patcher_version = V_2_0
    /\ verdict = NoVerdict
    /\ call = NoCall
    /\ content_in_processing = NoContent
    /\ wizard = IdleWizard
    /\ history = NoRefresh
    /\ session = NoSession
    /\ context = NoContext
    /\ distribution = NoDistribution
    /\ app = IdleApp

\* the user adds, edits or deletes a manifest in the distribution directory
EditDistribution ==
    /\ \E i \in 1..Len(ManifestPaths) :
          \/ \E text \in ManifestTexts(ManifestPaths[i]) :
                /\ ManifestPaths[i] \in DOMAIN distribution => distribution[ManifestPaths[i]] # text
                /\ distribution' = Put(distribution, ManifestPaths[i], text)
          \/ /\ ManifestPaths[i] \in DOMAIN distribution
             /\ distribution' = Pop(distribution, ManifestPaths[i])
    /\ UNCHANGED <<mod, installed_content, installed_descriptions, manifest_disk,
                   game_installment, patcher_version, verdict, call,
                   content_in_processing, wizard, history, session, context, app>>

\* App.load_distro_async
LoadDistroAsync ==
    /\ history.refreshes < MaxRefreshes
    /\ \E keep_gone \in BOOLEAN :
          context' = load_mods_async(context, distribution, history.refreshes + 1, keep_gone)
    /\ session' = load_distro(session, context', distribution)
    /\ history' = [refreshes |-> history.refreshes + 1, before |-> session,
                   seen |-> distribution, seen_before |-> history.seen]
    /\ UNCHANGED <<mod, installed_content, installed_descriptions, manifest_disk,
                   game_installment, patcher_version, verdict, call,
                   content_in_processing, wizard, distribution, app>>

NextRefresh ==
    \/ EditDistribution
    \/ LoadDistroAsync

SpecRefresh == InitRefresh /\ [][NextRefresh]_vars

-----------------------------------------------------------------------------
(* Claims about Mod.install                                                 *)

InstallCalled == call.fn = "install"

\* what check_requirements says at the moment install runs
RequirementsNow == check_requirements(mod, installed_content, installed_descriptions)

\* the copy plan: the list handed to copy_from_to
InPlan(job) == \E i \in 1..Len(call.result.mod_files) : call.result.mod_files[i] = job

\* C12: when check_requirements reports the prerequisites as not met at the moment
\* install runs, install returns failure with exactly the requirement error
\* messages, of which there is at least one, and copy_from_to is never called.
C12_UnmetPrerequisitesStopInstall ==
    (InstallCalled /\ RequirementsNow.raised = "none" /\ ~RequirementsNow.requirements_met)
    => /\ ~call.result.status
       /\ call.result.error_msgs = RequirementsNow.error_msg
       /\ call.result.error_msgs # <<>>
       /\ ~call.result.copy_called
       /\ call.result.mod_files = <<>>

C12_Witness ==
    /\ InstallCalled
    /\ mod.prerequisites # <<>> /\ installed_content = NoContent
    /\ wizard.install_settings = <<<<"base", "yes">>>>
    /\ ~call.result.status /\ call.result.error_msgs # <<>>

\* C13: when a plan was built from a selection that has the key "base", the plan
\* contains <mod>/data iff the mod is not no_base_content and the value of "base"
\* is not "skip".
C13_BaseJobIffSelected ==
    (InstallCalled /\ call.result.copy_called /\ HasKey(wizard.install_settings, "base"))
    => (InPlan(base_path(mod))
          <=> (~mod.no_base_content /\ Get(wizard.install_settings, "base") # "skip"))

\* the values the schema of an option allows
AllowedValues(option) ==
    {"yes", "skip"} \cup {option.install_settings[i] : i \in 1..Len(option.install_settings)}

\* a selection as the claim wants it: "base" is a key, every other key names a
\* declared option and its value is one the option allows
ValidSelection(self, d) ==
    /\ HasKey(d, "base")
    /\ \A i \in 1..Len(d) :
          d[i][1] # "base"
          => \E k \in 1..Len(self.optional_content) :
                /\ self.optional_content[k].name = d[i][1]
                /\ d[i][2] \in AllowedValues(self.optional_content[k])

\* the place of a job's directory in the declaration order: 0 for base content
OptionIndex(name) ==
    CHOOSE i \in 1..Len(mod.optional_content) : mod.optional_content[i].name = name

JobRank(job) == IF Len(job) = 2 THEN 0 ELSE OptionIndex(job[2])

\* C14: for a valid selection the plan is ordered: base content first, then the options in the order the
\* manifest declares them whatever the key order of the selection, and the
\* directory of a chosen setting comes right after the data directory of its option.
C14_PlanInDeclarationOrder ==
    (InstallCalled /\ call.result.copy_called
       /\ ValidSelection(mod, wizard.install_settings))
    => /\ \A i, j \in 1..Len(call.result.mod_files) :
             i < j => JobRank(call.result.mod_files[i]) <= JobRank(call.result.mod_files[j])
       /\ \A i \in 1..Len(call.result.mod_files) :
             (Len(call.result.mod_files[i]) = 3 /\ call.result.mod_files[i][3] # "data")
             => /\ i > 1
                /\ call.result.mod_files[i - 1]
                      = <<mod.name, call.result.mod_files[i][2], "data">>

\* C15: install accepts valid selections only: for any other selection it fails
\* and copies nothing.
C15_InvalidSelectionRejected ==
    (InstallCalled /\ ~ValidSelection(mod, wizard.install_settings))
    => (~call.result.status /\ call.result.mod_files = <<>>)

\* a job whose source lies under the directory of a key of the selection
UnderKey(job, key) ==
    IF key = "base" THEN job = base_path(mod) ELSE Len(job) = 3 /\ job[2] = key

\* C16: every key of the selection whose value is not "skip" has at least one job
\* of the plan under its directory.
C16_PlannerComplete ==
    (InstallCalled /\ call.result.copy_called)
    => \A i \in 1..Len(wizard.install_settings) :
          wizard.install_settings[i][2] # "skip"
          => \E j \in 1..Len(call.result.mod_files) :
                UnderKey(call.result.mod_files[j], wizard.install_settings[i][1])

C16_Witness ==
    /\ InstallCalled /\ call.result.status
    /\ wizard.install_settings = <<<<"ost", "high">>, <<"base", "yes">>, <<"hd", "yes">>>>
    /\ Len(call.result.mod_files) = 4

-----------------------------------------------------------------------------
(* Claims about the install runs *)

\* C1: a mod is recorded in installed_content, in memory or in the written
\* manifest, only if some install run of that mod finished with status ok.
C1_RecordedOnlyIfInstalledOk ==
    \A n \in DOMAIN installed_content \cup DOMAIN manifest_disk :
        n \in history.ok_mods

\* C2: when a run fails after file copying has begun (copy status not ok, config
\* edit error, missing render DLL, binary patch error) the manifest on disk is
\* what it was before the run.
C2_ManifestUntouchedOnFailure ==
    (wizard.pc # "idle" /\ wizard.copied /\ wizard.failure \in FailuresAfterCopy)
    => manifest_disk = wizard.disk_pre

C2_Witness ==
    /\ wizard.pc = "results"
    /\ wizard.copied
    /\ wizard.failure = "copy_status"
    /\ manifest_disk # NoContent
    /\ manifest_disk = wizard.disk_pre

\* the first run of a session, on the empty game copy, installs alpha with {base: "yes"}
FreshAlphaRun ==
    /\ history.runs = 1
    /\ mod = AlphaMod
    /\ wizard.install_settings = <<<<"base", "yes">>>>

C20_ProbeGuardsInstall ==
    /\ wizard.pc # "idle" => (app.probed /\ ~app.is_running)
    /\ (app.probed /\ app.is_running)
         => /\ app.alert = "game_is_running"
            /\ ~app.overlay
            /\ wizard.pc = "idle"

C20_Witness ==
    /\ wizard.pc = "config" /\ wizard.copied
    /\ app.alert = "game_is_running"
    /\ app.probed /\ ~app.is_running

-----------------------------------------------------------------------------
(* Claims about the settings screen                                         *)

\* the reinstall is one of a mod with optional content that may go on
ComplexReinstall ==
    check_reinstallability(mod, installed_content, installed_descriptions).reinstall_warning
        \in {"complex_safe_reinstall", "complex_unsafe_reinstall"}

\* the selection was read from the cards and handed to the installer
SelectionHandedOver == wizard.pc = "copy"

\* C17: in a complex reinstall the selection handed to the installer has, for every
\* option the previous install recorded a value for ("skip" included), that value.
C17_ForcedOptionsKept ==
    (SelectionHandedOver /\ ComplexReinstall)
    => \A i \in 1..Len(mod.optional_content) :
          ExistingContent(mod, installed_content, mod.optional_content[i]) # None
          => Get(wizard.install_settings, mod.optional_content[i].name)
               = ExistingContent(mod, installed_content, mod.optional_content[i])

-----------------------------------------------------------------------------
(* Claims about the refresh                                                 *)

\* the paths the session held a mod for before the last refresh and whose manifest
\* both that refresh and the one before it found
HeldAndFound ==
    {ManifestPaths[i] : i \in 1..Len(ManifestPaths)}
        \cap DOMAIN history.before.mods \cap DOMAIN history.seen \cap DOMAIN history.seen_before

\* C19: after a refresh, a mod whose id and manifest hash did not change keeps the
\* session entry it had; a mod whose manifest hash changed is in the session as
\* the context reloaded it and the hash tracked for it is the one of the manifest;
\* a mod whose manifest is gone is not in session.mods.
C19_RefreshDiff ==
    history.refreshes > 0
    => /\ \A path \in HeldAndFound :
             history.seen[path] = history.seen_before[path]
             => /\ path \in DOMAIN session.mods
                /\ session.mods[path] = history.before.mods[path]
       /\ \A path \in HeldAndFound :
             manifest_hash(history.seen[path]) # manifest_hash(history.seen_before[path])
             => /\ path \in DOMAIN session.mods
                /\ session.mods[path] = context.validated_mods[path]
                /\ session.mods[path].id_str \in tracked_mods(session)
                /\ session.tracked_mods_hashes[session.mods[path].id_str]
                      = manifest_hash(history.seen[path])
       /\ \A path \in DOMAIN history.before.mods \ DOMAIN history.seen :
             path \notin DOMAIN session.mods

-----------------------------------------------------------------------------
(* Claims about the order of the steps of an install run                     *)

FileCopies == {"install"}

BinaryPatches == {"patch_configurables", "patch_render_dll", "patch_game_exe",
                  "patch_memory"}

\* C29: within one install run the copy of the files has been made before any
\* patch of the executable or of the DLL and no copy follows a patch, and the
\* write of the manifest of installed mods comes after every patch and is the
\* last modification of the run
C29_CopyPatchManifestOrder ==
    \A i \in DOMAIN wizard.log :
       /\ wizard.log[i] \in BinaryPatches =>
             /\ \E j \in 1..(i - 1) : wizard.log[j] \in FileCopies
             /\ \A j \in (i + 1)..Len(wizard.log) : wizard.log[j] \notin FileCopies
       /\ wizard.log[i] = "dump_yaml" => i = Len(wizard.log)

\* a run of community_remaster that is over: rename, copy, both patches, and
\* the manifest written last
C29_Witness ==
    /\ wizard.pc = "results"
    /\ Len(wizard.log) >= 5
    /\ wizard.log[1] = "rename_effects_bps"
    /\ wizard.log[2] = "install"
    /\ wizard.log[Len(wizard.log) - 2] = "patch_render_dll"
    /\ wizard.log[Len(wizard.log) - 1] = "patch_game_exe"
    /\ wizard.log[Len(wizard.log)] = "dump_yaml"

\* the steps before the patches that raise
EarlierFailures == {"rename_error", "config_edit"}

\* C30: a run that installs community_remaster with no dxrender9.dll in the game
\* root has applied no patch of the executable, and, once it is over with no
\* earlier step having raised, it has failed with DXRenderDllNotFoundError and
\* has written no manifest
C30_DllMissingFailsBeforePatches ==
    (mod.name = "community_remaster" /\ ~wizard.dll_exists /\ wizard.pc # "idle") =>
       /\ \A i \in DOMAIN wizard.log : wizard.log[i] \notin BinaryPatches
       /\ (wizard.pc = "results" /\ wizard.failure \notin EarlierFailures) =>
             /\ wizard.failure = "dll_missing"
             /\ ~wizard.status_ok
             /\ manifest_disk = wizard.disk_pre

\* the run of community_remaster stopped at the missing DLL, after the copy
C30_Witness ==
    /\ mod.name = "community_remaster"
    /\ ~wizard.dll_exists
    /\ wizard.pc = "results"
    /\ wizard.failure = "dll_missing"
    /\ wizard.copied
    /\ wizard.log = <<"rename_effects_bps", "install">>

-----------------------------------------------------------------------------
(* Claims about the prerequisites of a mod made for community_patch          *)

\* check_requirement was called on a prerequisite whose last installed
\* alternative is community_patch, with community_remaster installed, by a mod
\* that is not community_remaster and does not name it as an alternative
CompatchOnRemaster ==
    /\ call.fn = "check_requirement"
    /\ LastInstalledName(mod.prerequisites[call.entry].name, installed_content)
           = "community_patch"
    /\ "community_remaster" \in DOMAIN installed_content
    /\ mod.name # "community_remaster"
    /\ \A i \in DOMAIN mod.prerequisites[call.entry].name :
          mod.prerequisites[call.entry].name[i] # "community_remaster"

\* C34: a prerequisite satisfied by community_patch on a game copy that has
\* community_remaster, asked by a mod other than community_remaster that does
\* not accept community_remaster, is not validated and the lines returned hold
\* the line compatch_mod_incompatible_with_comrem
C34_CompatchModOnRemaster ==
    CompatchOnRemaster =>
       /\ call.result.raised = "none"
       /\ ~call.result.validated
       /\ \E i \in DOMAIN call.result.error_msg :
             call.result.error_msg[i].key = "compatch_mod_incompatible_with_comrem"

C34_Witness ==
    /\ CompatchOnRemaster
    /\ ~call.result.validated
    /\ Len(mod.prerequisites[call.entry].versions) > 0

-----------------------------------------------------------------------------
(* Claims about Mod.validate_dict                                            *)

DictValidated == call.fn = "validate_dict"

\* the value has one of the allowed types: a plain type it is an instance of,
\* or a generic list type whose element types hold every element
MatchesType(value, t) ==
    IF t.generic
    THEN /\ value.type = t.origin
         /\ \A k \in 1..Len(value.items) : \E a \in t.args : isinstance(value.items[k], a)
    ELSE isinstance(value.type, t.origin)

FieldOf(validating_dict, field) ==
    IF field \in DOMAIN validating_dict.fields
    THEN validating_dict.fields[field] ELSE PyNone

\* C35: validate_dict returns false when a required field is missing or when
\* a field that is present has a value of none of the allowed types of its
\* schema entry; fields the schema does not name do not count
C35_ValidateDictRejects ==
    (DictValidated /\ call.validating_dict.type = "dict") =>
       \A i \in 1..Len(call.scheme) :
          LET value == FieldOf(call.validating_dict, call.scheme[i].field)
          IN (\/ call.scheme[i].required /\ value = PyNone
              \/ /\ value # PyNone
                 /\ \A k \in 1..Len(call.scheme[i].types) :
                       ~MatchesType(value, call.scheme[i].types[k]))
             => ~call.result

-----------------------------------------------------------------------------
(* Claims about the patcher options of a manifest                            *)

\* the patcher options of the manifest and of its optional content
PatcherOptionsIn(install_config) ==
    {install_config.patcher_options}
    \cup {install_config.optional_content[i].patcher_options :
             i \in 1..Len(install_config.optional_content)}

GravityInRange(fields) ==
    "gravity" \in DOMAIN fields =>
       /\ fields["gravity"].type = "float"
       /\ -1000 <= fields["gravity"].num /\ fields["gravity"].num <= -10

SkinsInRange(fields) ==
    "skins_in_shop" \in DOMAIN fields =>
       /\ fields["skins_in_shop"].type = "int"
       /\ 80 <= fields["skins_in_shop"].num /\ fields["skins_in_shop"].num <= 320

\* the fields without a range have a type of their schema entry
UnrangedFieldsValid(fields) ==
    /\ "blast_damage_friendly_fire" \in DOMAIN fields =>
          fields["blast_damage_friendly_fire"].type \in {"bool", "str"}
    /\ "game_font" \in DOMAIN fields => fields["game_font"].type = "str"

\* a manifest with patcher options and nothing else that validation refuses
OnlyPatcherOptions(install_config) ==
    /\ install_config.is_dict /\ install_config.schema_ok
    /\ install_config.prerequisites = <<>> /\ install_config.incompatible = <<>>
    /\ data_validated(install_config, FALSE)
    /\ \E po \in PatcherOptionsIn(install_config) : po.present
    /\ \A i \in 1..Len(install_config.optional_content) :
          /\ install_config.optional_content[i].schema_ok
          /\ ~reserved_name(install_config.optional_content[i].name)
          /\ Len(install_config.optional_content[i].install_settings) # 1
    /\ \A po \in PatcherOptionsIn(install_config) : UnrangedFieldsValid(po.fields)

\* C36: a manifest whose patcher options have a gravity that is not a float of
\* [-100.0, -1.0] or a skins_in_shop that is not an integer of [8, 32] fails
\* validation, and a manifest with nothing else wrong passes exactly when
\* both are absent or in range
C36_PatcherOptionsInRange ==
    (ValidateCalled /\ call.install_config.is_dict) =>
       /\ (\E po \in PatcherOptionsIn(call.install_config) :
              po.present /\ ~(GravityInRange(po.fields) /\ SkinsInRange(po.fields)))
          => ~call.result
       /\ OnlyPatcherOptions(call.install_config) =>
             (call.result <=>
                \A po \in PatcherOptionsIn(call.install_config) :
                   GravityInRange(po.fields) /\ SkinsInRange(po.fields))

\* gravity -100.1 with skins_in_shop 32 is refused
C36_Witness ==
    /\ ValidateCalled /\ ~call.result
    /\ OnlyPatcherOptions(call.install_config)
    /\ call.install_config.patcher_options.present
    /\ DOMAIN call.install_config.patcher_options.fields = {"gravity", "skins_in_shop"}
    /\ call.install_config.patcher_options.fields["gravity"] = Num("float", -1001)
    /\ call.install_config.patcher_options.fields["skins_in_shop"] = Num("int", 320)

-----------------------------------------------------------------------------
(* Claims about the directories of a mod                                    *)

\* validate_install_config was called with data validation on a manifest that
\* is a dict and meets the schema
DataValidationCalled ==
    /\ ValidateCalled /\ ~call.skip_data_validation
    /\ call.install_config.is_dict /\ call.install_config.schema_ok

DataDirExists(install_config) ==
    <<mod_identifier(install_config.name), "data">> \in install_config.dirs

OptionDirsExist(install_config) ==
    \A i \in 1..Len(install_config.optional_content) :
       /\ <<mod_identifier(install_config.name), install_config.optional_content[i].name>>
             \in install_config.dirs
       /\ \A k \in 1..Len(install_config.optional_content[i].install_settings) :
             <<mod_identifier(install_config.name), install_config.optional_content[i].name,
               install_config.optional_content[i].install_settings[k]>>
                \in install_config.dirs

\* C37: with data validation, a manifest passes only if the directory of every
\* optional content and of every install setting exists and, unless the
\* no_base_content flag of the mod is true, its data directory exists
C37_DataDirsRequired ==
    (DataValidationCalled /\ call.result) =>
       /\ OptionDirsExist(call.install_config)
       /\ no_base_content_of(call.install_config.no_base_content).no_base_content
          \/ DataDirExists(call.install_config)

-----------------------------------------------------------------------------
(* Claims about validate_archive_mod_paths                                   *)

ArchiveValidated == call.fn = "validate_archive_mod_paths"

\* the listing has the directory with these parts
ListedDir(parts) ==
    \E file \in call.archive_file_list : file.filename = parts /\ file.emptystream

\* the base data directory, unless no_base_content, and for every optional
\* content its directory and the data directory of each install setting, or
\* its own data directory when it has no install settings
ArchiveComplete ==
    /\ call.archive_mod.no_base_content \/ ListedDir(<<"alpha", "data">>)
    /\ \A i \in 1..Len(call.archive_mod.optional_content) :
          LET option == call.archive_mod.optional_content[i]
          IN /\ ListedDir(<<"alpha", option.name>>)
             /\ \A k \in 1..Len(option.install_settings) :
                   ListedDir(<<"alpha", option.name, option.install_settings[k], "data">>)
             /\ option.install_settings = <<>> => ListedDir(<<"alpha", option.name, "data">>)

\* C38: validate_archive_mod_paths does not raise, for a zip and for a 7z
\* listing, and returns true exactly when the listing has every directory of
\* the mod
C38_ArchivePathsValidated ==
    ArchiveValidated =>
       /\ call.result.raised = "none"
       /\ call.result.validated <=> ArchiveComplete

-----------------------------------------------------------------------------
(* Claims about Mod.check_requirements and the version of the mod manager   *)

\* check_requirements was called with a version of the mod manager that
\* compatible_with_mod_manager finds not to satisfy the requirement of the mod
UnsupportedToolChecked ==
    /\ call.fn = "check_requirements"
    /\ call.compatible.raised = "none"
    /\ ~call.compatible.compatible

\* C39: check_requirements called with a patcher_version that does not satisfy
\* patcher_version_requirement returns requirements_met = false and the line
\* usupported_patcher_version among its messages
C39_UnsupportedToolVersionReported ==
    UnsupportedToolChecked =>
       /\ call.result.raised = "none"
       /\ ~call.result.requirements_met
       /\ \E i \in DOMAIN call.result.error_msg :
             call.result.error_msg[i].key = "usupported_patcher_version"

-----------------------------------------------------------------------------
(* Claims about the hashes the session tracks                                *)

\* the ids of the mods of the session
SessionIds == {session.mods[path].id_str : path \in DOMAIN session.mods}

\* C32: after every refresh the ids with a tracked hash are the ids of the
\* mods of the session, and a manifest of the distribution directory, one that
\* came back after it was gone included, is in the session
C32_TrackedHashesMatchSession ==
    history.refreshes >= 1 =>
       /\ DOMAIN session.tracked_mods_hashes = SessionIds
       /\ distribution = history.seen => DOMAIN distribution \subseteq DOMAIN session.mods

-----------------------------------------------------------------------------
(* Claims about the end of an install run                                   *)

\* C31: once show_install_progress has disabled the close button, the wizard
\* gets to the results with the close button enabled again, whatever happens
\* in the run
C31_InstallEndsAtResults == wizard.close_disabled ~> ~wizard.close_disabled

-----------------------------------------------------------------------------
(* The game copies of the settings screen and of the home screen: app.game  *)
(* is the game object in use, named here by the path it was made for ("" is *)
(* the dummy game), current_game is config.current_game, displayed is the   *)
(* list item shown as current, games are the items of list_of_games         *)

GamePaths == {"g1", "g2", "g3"}

\* SettingsScreen.select_game; the reload of the distribution at its end is
\* under "if self.app.context.distribution_dir", which is empty here
select_game(self, item, recheck_game, check_raises, can_be_added, load_raises) ==
    IF recheck_game /\ check_raises
    THEN [self EXCEPT !.alert = "broken_game"]
    ELSE IF recheck_game /\ load_raises
    THEN [self EXCEPT !.game = item, !.alert = "broken_game"]
    ELSE IF recheck_game /\ ~can_be_added
    THEN [self EXCEPT !.game = item, !.alert = "warning"]
    ELSE [self EXCEPT !.game = IF recheck_game THEN item ELSE @,
                      !.displayed = item, !.current_game = item]

\* SettingsScreen.add_game_to_list with is_current left at its default
add_game_to_list(self, game_path, can_be_added) ==
    IF can_be_added
    THEN select_game([self EXCEPT !.displayed = "", !.games = @ \cup {game_path}],
                     game_path, FALSE, FALSE, can_be_added, FALSE)
    ELSE self

\* HomeScreen.select_game_from_home
select_game_from_home(self, game_path, check_raises, can_be_added, game_is_running) ==
    LET warned == IF game_is_running /\ ~self.home_game_is_running
                  THEN [self EXCEPT !.alert = "game_is_running_cant_select",
                                    !.home_game_is_running = TRUE]
                  ELSE self
    IN IF check_raises THEN [self EXCEPT !.alert = "broken_game"]
       ELSE IF ~can_be_added THEN [warned EXCEPT !.alert = "warning"]
       ELSE [warned EXCEPT !.game = game_path, !.current_game = game_path]

InitGame ==
    /\ mod = ModManifest("alpha", V_1_0_0, Build_1, "exmachina", <<>>, <<>>, <<>>, DefaultRequirement)
    /\ installed_content = NoContent
    /\ installed_descriptions = DescriptionsOf({})
    /\ manifest_disk = NoContent
    /\ game_installment = "exmachina"
    /\ patcher_version = V_2_0
    /\ verdict = NoVerdict
    /\ call = NoCall
    /\ content_in_processing = NoContent
    /\ wizard = IdleWizard
    /\ history = NoHistory
    /\ session = NoSession
    /\ context = NoContext
    /\ distribution = NoDistribution
    /\ \E item \in GamePaths \cup {""} :
          app = [IdleApp EXCEPT !.game = item, !.current_game = item,
                                !.displayed = item, !.games = {item} \ {""}]

\* GameCopyListItem.make_current on an item that is not the current one
MakeCurrent ==
    /\ \E item \in app.games \ {app.displayed}, check_raises, can_be_added, load_raises \in BOOLEAN :
          /\ app' = select_game(app, item, TRUE, check_raises, can_be_added, load_raises)
          /\ call' = [fn |-> "select_game", item |-> item,
                      check_raises |-> check_raises,
                      can_be_added |-> ~check_raises /\ can_be_added,
                      load_raises |-> ~check_raises /\ load_raises]
    /\ UNCHANGED <<mod, installed_content, installed_descriptions, manifest_disk,
                   game_installment, patcher_version, verdict,
                   content_in_processing, wizard, history,
                   session, context, distribution>>

\* SettingsScreen.add_game_manual, SettingsScreen.add_steam
AddGame ==
    /\ \E game_path \in GamePaths \ app.games, can_be_added \in BOOLEAN :
          /\ app' = add_game_to_list(app, game_path, can_be_added)
          /\ call' = [fn |-> "add_game_to_list", item |-> game_path,
                      check_raises |-> FALSE, can_be_added |-> can_be_added,
                      load_raises |-> FALSE]
    /\ UNCHANGED <<mod, installed_content, installed_descriptions, manifest_disk,
                   game_installment, patcher_version, verdict,
                   content_in_processing, wizard, history,
                   session, context, distribution>>

SelectGameFromHome ==
    /\ \E game_path \in app.games, check_raises, can_be_added, game_is_running \in BOOLEAN :
          /\ app' = select_game_from_home(app, game_path, check_raises, can_be_added,
                                          game_is_running)
          /\ call' = [fn |-> "select_game_from_home", item |-> game_path,
                      check_raises |-> check_raises,
                      can_be_added |-> ~check_raises /\ can_be_added,
                      load_raises |-> FALSE]
    /\ UNCHANGED <<mod, installed_content, installed_descriptions, manifest_disk,
                   game_installment, patcher_version, verdict,
                   content_in_processing, wizard, history,
                   session, context, distribution>>

NextGame == MakeCurrent \/ AddGame \/ SelectGameFromHome

SpecGame == InitGame /\ [][NextGame]_vars

-----------------------------------------------------------------------------
(* Claims about the selection of a game copy                                *)

SelectionRejected ==
    /\ call'.fn = "select_game"
    /\ call'.check_raises \/ (~call'.load_raises /\ ~call'.can_be_added)

SelectionUnchanged ==
    /\ app'.game = app.game
    /\ app'.current_game = app.current_game
    /\ app'.displayed = app.displayed

\* C33: a select_game whose recheck rejects the game copy, or whose check
\* raises, leaves app.game, config.current_game and the item displayed as
\* current as they were, and app.game is always the game of
\* config.current_game
C33_RejectedSelectionChangesNothing ==
    /\ [][(NextGame /\ SelectionRejected) => SelectionUnchanged]_vars
    /\ [](app.game = app.current_game)

-----------------------------------------------------------------------------
(* The launch button of the home screen.  The clock (now, game_change_time, *)
(* current_time) counts whole seconds.  procs are the processes the tool has *)
(* spawned, each "running", "terminating" (terminate() was called on it and *)
(* it has not ended yet) or "exited"; current_game_process is <<p>> for the *)
(* process procs[p] and <<>> for None, game_change_time is <<t>> or <<>>    *)
(* for None.  handlers are the launch_game coroutines that wait at an  *)
(* await, trackers is the number of keep_track_of_game_proc tasks in their  *)
(* loop.  outside says which game was started outside of the tool: "none",  *)
(* "same_exe" (the executable of app.game) or "other_copy" (a game of       *)
(* another directory, named hta.exe or ExMachina.exe)                        *)

MaxClicks == 3
MaxSeconds == 1
Day == 24 * 3600

RemoveAt(seq, i) == SubSeq(seq, 1, i - 1) \o SubSeq(seq, i + 1, Len(seq))

\* timedelta.seconds: the seconds of the difference without its days
seconds(delta) == delta % Day

recently_changed_never(current_time, game_change_time) == FALSE

\* "if self.app.game_change_time is not None:
\*      if (current_time - self.app.game_change_time).seconds < 1:"
recently_changed(current_time, game_change_time) ==
    /\ game_change_time # <<>>
    /\ seconds(current_time - game_change_time[1]) < 1

\* GameCopy.check_is_running: is any process executing the executable of
\* this game
check_is_running(self) ==
    \/ self.outside = "same_exe"
    \/ \E p \in 1..Len(self.procs) : self.procs[p] # "exited"

\* HomeScreen.check_for_game: get_proc_by_names(("hta.exe", "ExMachina.exe"))
\* when no process is tracked, None (falsy) otherwise
check_for_game(self) ==
    IF self.current_game_process = <<>> THEN self.outside # "none" ELSE FALSE

\* HomeScreen.launch_game up to its first await: current_time is read, the
\* progress ring is shown
launch_game_clicked(self) ==
    [self EXCEPT !.handlers = Append(@, [current_time |-> self.now,
                                         pc |-> "entered", proc |-> <<>>])]

\* HomeScreen.launch_game from its first await to its return or to the await
\* in asyncio.create_subprocess_exec, which has started the process
launch_game(self, i) ==
    LET h == self.handlers[i]
        done == [self EXCEPT !.handlers = RemoveAt(@, i)]
        tracked == self.current_game_process
    IN IF recently_changed(h.current_time, self.game_change_time)
       THEN done
       ELSE IF tracked = <<>>
       THEN IF check_is_running(self)
            THEN [done EXCEPT !.alert = "game_is_already_running",
                              !.home_game_is_running = TRUE]
            ELSE IF check_for_game(self)
            THEN [done EXCEPT !.alert = "game_is_already_running"]
            ELSE [self EXCEPT !.procs = Append(@, "running"),
                              !.handlers[i] = [h EXCEPT !.pc = "spawning",
                                                        !.proc = <<Len(self.procs) + 1>>]]
       ELSE IF self.procs[tracked[1]] # "exited"
       THEN [done EXCEPT !.procs[tracked[1]] = "terminating",
                         !.current_game_process = <<>>]
       ELSE [done EXCEPT !.current_game_process = <<>>]

\* HomeScreen.launch_game after asyncio.create_subprocess_exec returned
launch_game_spawned(self, i) ==
    [self EXCEPT !.current_game_process = self.handlers[i].proc,
                 !.game_change_time = <<self.now>>,
                 !.trackers = @ + 1,
                 !.home_game_is_running = TRUE,
                 !.handlers = RemoveAt(@, i)]

\* one round of the loop of HomeScreen.keep_track_of_game_proc
keep_track_of_game_proc(self) ==
    IF self.current_game_process = <<>>
    THEN [self EXCEPT !.game_is_running = FALSE, !.trackers = @ - 1]
    ELSE IF self.procs[self.current_game_process[1]] # "exited"
    THEN self
    ELSE [self EXCEPT !.current_game_process = <<>>, !.game_is_running = FALSE,
                      !.trackers = @ - 1]

InitLaunch ==
    /\ mod = ModManifest("alpha", V_1_0_0, Build_1, "exmachina", <<>>, <<>>, <<>>, DefaultRequirement)
    /\ installed_content = NoContent
    /\ installed_descriptions = DescriptionsOf({})
    /\ manifest_disk = NoContent
    /\ game_installment = "exmachina"
    /\ patcher_version = V_2_0
    /\ verdict = NoVerdict
    /\ call = NoCall
    /\ content_in_processing = NoContent
    /\ wizard = IdleWizard
    /\ history = [clicks |-> 0]
    /\ session = NoSession
    /\ context = NoContext
    /\ distribution = NoDistribution
    /\ app = [IdleApp EXCEPT !.game = "g1", !.current_game = "g1",
                             !.displayed = "g1", !.games = {"g1"}]

LaunchFrame ==
    UNCHANGED <<mod, installed_content, installed_descriptions, manifest_disk,
                game_installment, patcher_version, verdict,
                content_in_processing, wizard, session, context, distribution>>

\* a click on the launch button
LaunchGameClicked ==
    /\ history.clicks < MaxClicks
    /\ app' = launch_game_clicked(app)
    /\ history' = [clicks |-> history.clicks + 1]
    /\ call' = [fn |-> "click"]
    /\ LaunchFrame

LaunchGame ==
    /\ \E i \in 1..Len(app.handlers) :
          /\ app.handlers[i].pc = "entered"
          /\ app' = launch_game(app, i)
          /\ call' = [fn |-> "launch_game",
                      current_time |-> app.handlers[i].current_time]
    /\ UNCHANGED history
    /\ LaunchFrame

LaunchGameSpawned ==
    /\ \E i \in 1..Len(app.handlers) :
          /\ app.handlers[i].pc = "spawning"
          /\ app' = launch_game_spawned(app, i)
    /\ call' = [fn |-> "spawned"]
    /\ UNCHANGED history
    /\ LaunchFrame

KeepTrackOfGameProc ==
    /\ app.trackers > 0
    /\ app' = keep_track_of_game_proc(app)
    /\ call' = [fn |-> "keep_track_of_game_proc"]
    /\ UNCHANGED history
    /\ LaunchFrame

\* a spawned process ends
ProcessExits ==
    /\ \E p \in 1..Len(app.procs) :
          /\ app.procs[p] # "exited"
          /\ app' = [app EXCEPT !.procs[p] = "exited"]
    /\ call' = [fn |-> "exit"]
    /\ UNCHANGED history
    /\ LaunchFrame

\* a game is started or closed outside of the tool
OutsideGame ==
    /\ \E outside \in {"none", "same_exe", "other_copy"} \ {app.outside} :
          /\ outside = "same_exe" => ~check_is_running(app)
          /\ app' = [app EXCEPT !.outside = outside]
    /\ call' = [fn |-> "outside"]
    /\ UNCHANGED history
    /\ LaunchFrame

\* time passes: a second, or once a day while no coroutine waits at an await
Tick ==
    /\ \E step \in {1, Day} :
          /\ step = 1 => app.now % Day < MaxSeconds
          /\ step = Day => app.now < Day /\ app.handlers = <<>>
          /\ app' = [app EXCEPT !.now = @ + step]
    /\ call' = [fn |-> "tick"]
    /\ UNCHANGED history
    /\ LaunchFrame

NextLaunch ==
    \/ LaunchGameClicked
    \/ LaunchGame
    \/ LaunchGameSpawned
    \/ KeepTrackOfGameProc
    \/ ProcessExits
    \/ OutsideGame
    \/ Tick

SpecLaunch == InitLaunch /\ [][NextLaunch]_vars

-----------------------------------------------------------------------------
(* Claims about the launch button                                           *)

AliveProcs(self) == {p \in 1..Len(self.procs) : self.procs[p] # "exited"}

Spawned == Len(app'.procs) > Len(app.procs)

\* the call was made less than one second after game_change_time
WithinASecond ==
    /\ app.game_change_time # <<>>
    /\ call'.current_time - app.game_change_time[1] = 0

TrackedAlive ==
    /\ app.current_game_process # <<>>
    /\ app.procs[app.current_game_process[1]] = "running"

SpawnsOnlyWhenNothingRuns ==
    Spawned => /\ app.current_game_process = <<>>
               /\ ~check_is_running(app)
               /\ app.outside = "none"

TerminatesTracked ==
    (call'.fn = "launch_game" /\ TrackedAlive /\ ~WithinASecond)
        => /\ app'.procs[app.current_game_process[1]] # "running"
           /\ app'.current_game_process = <<>>
           /\ ~Spawned

GateChangesNothing ==
    (call'.fn = "launch_game" /\ WithinASecond)
        => app' = [app EXCEPT !.handlers = app'.handlers]

\* C40: at most one process spawned by launch_game is alive; a process is
\* spawned only when none is tracked and neither probe reports a running
\* game; a call that finds the tracked process alive terminates it and spawns
\* nothing; a call less than a second after game_change_time changes nothing
C40_OneGameProcess ==
    /\ [](Cardinality(AliveProcs(app)) <= 1)
    /\ [][NextLaunch => SpawnsOnlyWhenNothingRuns]_vars
    /\ [][NextLaunch => TerminatesTracked]_vars
    /\ [][NextLaunch => GateChangesNothing]_vars

====
